---- MODULE Spec2Model ----
(***************************************************************************)
(* A model of the artifact assembly pipeline of pdm-backend:               *)
(*   - include / exclude glob resolution and merging   (base.py)           *)
(*   - file collection into a FileMap                  (base.py, wheel.py) *)
(*   - the hook pipeline of Builder.build              (base.py)           *)
(*   - the wheel writer and its RECORD manifest        (wheel.py)          *)
(* Python strings are modelled as sequences of one-character strings, so   *)
(* that splitting, prefix and suffix tests, wildcard matching and ordering *)
(* are computed the way the code computes them.                            *)
(***************************************************************************)
EXTENDS Integers, Sequences, FiniteSets, TLC

(***************************************************************************)
(* Bounds of the model.                                                    *)
(***************************************************************************)
\* largest number of patterns in tool.pdm.build.includes / .excludes
MaxPatterns == 2

(***************************************************************************)
(* Characters and strings.                                                 *)
(***************************************************************************)
\* the characters the model uses, in ASCII order
Ascii ==
  << "*", "+", "-", ".", "/",
     "0", "1", "2", "3", "4", "5", "6", "7", "8", "9", "=", "?",
     "A", "B", "C", "D", "E", "F", "G", "H", "I", "J", "K", "L", "M",
     "N", "O", "P", "Q", "R", "S", "T", "U", "V", "W", "X", "Y", "Z",
     "[", "_",
     "a", "b", "c", "d", "e", "f", "g", "h", "i", "j", "k", "l", "m",
     "n", "o", "p", "q", "r", "s", "t", "u", "v", "w", "x", "y", "z" >>

\* ord(c), up to an order-preserving renumbering
CodeTable ==
  [ c \in { Ascii[i] : i \in 1..Len(Ascii) } |->
      CHOOSE i \in 1..Len(Ascii) : Ascii[i] = c ]

Code(c) == CodeTable[c]

\* s < t for Python str: lexicographic on code points
RECURSIVE StrLessFrom(_, _, _)
StrLessFrom(s, t, i) ==
  IF i > Len(t) THEN FALSE
  ELSE IF i > Len(s) THEN TRUE
  ELSE IF s[i] = t[i] THEN StrLessFrom(s, t, i + 1)
  ELSE Code(s[i]) < Code(t[i])

StrLess(s, t) == StrLessFrom(s, t, 1)

\* sorted(S) for a set of distinct str
Sorted(S) ==
  LET before == [ x \in S |-> Cardinality({ y \in S : StrLess(y, x) }) ]
  IN  [ i \in 1..Cardinality(S) |-> CHOOSE x \in S : before[x] = i - 1 ]

\* s.startswith(p)
StartsWith(s, p) == Len(p) <= Len(s) /\ SubSeq(s, 1, Len(p)) = p

\* s.endswith(p)
EndsWith(s, p) ==
  Len(p) <= Len(s) /\ SubSeq(s, Len(s) - Len(p) + 1, Len(s)) = p

\* c in s
Contains(s, c) == \E i \in 1..Len(s) : s[i] = c

\* s.split("/")
RECURSIVE SplitSlash(_)
SplitSlash(s) ==
  IF ~Contains(s, "/") THEN <<s>>
  ELSE LET i == CHOOSE k \in 1..Len(s) :
                  s[k] = "/" /\ \A j \in 1..(k - 1) : s[j] # "/"
       IN  <<SubSeq(s, 1, i - 1)>> \o SplitSlash(SubSeq(s, i + 1, Len(s)))

\* "/".join(parts)
RECURSIVE JoinSlash(_)
JoinSlash(parts) ==
  IF parts = << >> THEN << >>
  ELSE IF Len(parts) = 1 THEN parts[1]
  ELSE parts[1] \o <<"/">> \o JoinSlash(Tail(parts))

\* the parts of a path without its empty and "." segments
RECURSIVE DropEmptyAndDot(_)
DropEmptyAndDot(parts) ==
  IF parts = << >> THEN << >>
  ELSE IF Head(parts) = << >> \/ Head(parts) = <<".">>
       THEN DropEmptyAndDot(Tail(parts))
       ELSE <<Head(parts)>> \o DropEmptyAndDot(Tail(parts))

\* pathlib.Path(s).parts for a relative POSIX path: empty and "." segments
\* are dropped
Parts(s) == DropEmptyAndDot(SplitSlash(s))

\* the str of a path given by its parts; the empty path is "."
PathStr(parts) == IF parts = << >> THEN <<".">> ELSE JoinSlash(parts)

\* the loop of posixpath.normpath over the segments of a relative path: empty
\* and "." segments are dropped, ".." removes the segment before it unless
\* there is none or it is ".." itself
RECURSIVE NormComps(_, _)
NormComps(comps, new_comps) ==
  IF comps = << >> THEN new_comps
  ELSE LET comp == Head(comps)
       IN  IF comp = << >> \/ comp = <<".">>
           THEN NormComps(Tail(comps), new_comps)
           ELSE IF \/ comp # <<".",".">>
                   \/ new_comps = << >>
                   \/ new_comps[Len(new_comps)] = <<".",".">>
           THEN NormComps(Tail(comps), Append(new_comps, comp))
           ELSE NormComps(Tail(comps), SubSeq(new_comps, 1, Len(new_comps) - 1))

\* os.path.normpath(s) for a relative path
normpath(s) == PathStr(NormComps(SplitSlash(s), << >>))

(***************************************************************************)
(* File and directory names of the modelled project tree.                  *)
(***************************************************************************)
PKG == <<"p","k","g">>
DATA == <<"d","a","t","a">>
INNER == <<"i","n","n","e","r">>
TESTS == <<"t","e","s","t","s">>
INIT_PY == <<"_","_","i","n","i","t","_","_",".","p","y">>
X_JSON == <<"x",".","j","s","o","n">>
Y_JSON == <<"y",".","j","s","o","n">>
M_PYC == <<"m",".","p","y","c">>
T_PYC == <<"t",".","p","y","c">>
MOD_PY == <<"m","o","d",".","p","y">>
PYPROJECT_TOML == <<"p","y","p","r","o","j","e","c","t",".","t","o","m","l">>
GITIGNORE == <<".","g","i","t","i","g","n","o","r","e">>
STAR == <<"*">>
DSTAR == <<"*","*">>
STAR_JSON == <<"*",".","j","s","o","n">>
STAR_PYC == <<"*",".","p","y","c">>
STAR_PY == <<"*",".","p","y">>
DOT == <<".">>

\* files every modelled project tree has (as parts, relative to the root)
CoreFiles ==
  { <<PYPROJECT_TOML>>,
    <<PKG, DATA, Y_JSON>>,
    <<PKG, DATA, INNER, X_JSON>>,
    <<PKG, M_PYC>>,
    <<TESTS, T_PYC>>,
    <<TESTS, Y_JSON>>,
    <<MOD_PY>> }

\* files a project tree may or may not have
OptionalFiles == { <<PKG, INIT_PY>>, <<TESTS, INIT_PY>> }

\* the project trees of the model
Trees == { CoreFiles \cup O : O \in SUBSET OptionalFiles }

(***************************************************************************)
(* Filesystem queries on a tree t (a set of file paths given by parts).    *)
(***************************************************************************)
IsPrefix(p, q) == Len(p) <= Len(q) /\ SubSeq(q, 1, Len(p)) = p

\* os.path.isfile
isfile(t, p) == p \in t

\* os.path.isdir: a directory exists when a file lies beneath it
isdir(t, p) == \E f \in t : IsPrefix(p, f) /\ Len(p) < Len(f)

\* os.path.lexists
lexists(t, p) == isfile(t, p) \/ isdir(t, p)

\* os.listdir(p): the names in directory p
listdir(t, p) == { f[Len(p) + 1] : f \in { g \in t : IsPrefix(p, g) /\ Len(p) < Len(g) } }

\* every file and directory strictly beneath p
Beneath(t, p) ==
  UNION { { SubSeq(f, 1, n) : n \in (Len(p) + 1)..Len(f) } :
          f \in { g \in t : IsPrefix(p, g) /\ Len(p) < Len(g) } }

\* the files beneath directory p: Path(p).glob("**/*") filtered by is_file()
FilesBeneath(t, p) == { f \in t : IsPrefix(p, f) /\ Len(p) < Len(f) }

(***************************************************************************)
(* fnmatch and glob (the standard library, as the code uses them).         *)
(***************************************************************************)
\* glob.has_magic(s): s contains one of * ? [
has_magic(s) == \E i \in 1..Len(s) : s[i] \in {"*", "?", "["}

\* fnmatch.fnmatch(name, pat) on a POSIX platform, for patterns made of
\* literal characters, "*" and "?"
RECURSIVE fnmatch(_, _)
fnmatch(name, pat) ==
  IF pat = << >> THEN name = << >>
  ELSE IF Head(pat) = "*"
       THEN fnmatch(name, Tail(pat))
            \/ (name # << >> /\ fnmatch(Tail(name), pat))
  ELSE IF Head(pat) = "?"
       THEN name # << >> /\ fnmatch(Tail(name), Tail(pat))
  ELSE name # << >> /\ Head(name) = Head(pat)
       /\ fnmatch(Tail(name), Tail(pat))

\* glob hides dot-files from wildcard segments
IsHidden(name) == name # << >> /\ name[1] = "."

\* no segment of q after the first n is hidden
NoHiddenAfter(q, n) == \A i \in (n + 1)..Len(q) : ~IsHidden(q[i])

\* the paths (as parts) that segments i.. of a pattern resolve to below
\* directory d of tree t
RECURSIVE GlobRec(_, _, _, _)
GlobRec(t, d, segs, i) ==
  IF i > Len(segs) THEN {d}
  ELSE
    LET seg  == segs[i]
        last == (i = Len(segs))
        Down(q) == IF last THEN {q}
                   ELSE IF isdir(t, q) THEN GlobRec(t, q, segs, i + 1)
                   ELSE {}
    IN  IF seg = << >>
          THEN \* a trailing slash: only directories match
               IF last /\ d # << >> /\ isdir(t, d) THEN {d} ELSE {}
        ELSE IF seg = DOT
          THEN IF isdir(t, d) \/ d = << >>
               THEN GlobRec(t, d, segs, i + 1) ELSE {}
        ELSE IF seg = DSTAR
          THEN LET below == { q \in Beneath(t, d) : NoHiddenAfter(q, Len(d)) }
               IN  IF last
                   THEN ({d} \ {<< >>}) \cup below
                   ELSE UNION { GlobRec(t, q, segs, i + 1) :
                                q \in {d} \cup { b \in below : isdir(t, b) } }
        ELSE IF has_magic(seg)
          THEN UNION { Down(d \o <<n>>) :
                       n \in { m \in listdir(t, d) :
                                 /\ fnmatch(m, seg)
                                 /\ (IsHidden(m) => IsHidden(seg)) } }
        ELSE IF lexists(t, d \o <<seg>>) THEN Down(d \o <<seg>>) ELSE {}

\* { os.path.normpath(path) for path in glob.iglob(pattern, recursive=True) }
\* with the project root as working directory
GlobPaths(t, pattern) ==
  { PathStr(q) : q \in GlobRec(t, << >>, SplitSlash(pattern), 1) }

(***************************************************************************)
(* Include / exclude resolution (base.py).                                 *)
(***************************************************************************)
\* Path(target).relative_to(path) succeeds
is_same_or_descendant_path(target, path) == IsPrefix(Parts(path), Parts(target))

\* the number of wildcard points of the parts of a pattern
RECURSIVE WildcardCount(_)
WildcardCount(parts) ==
  IF parts = << >> THEN 0
  ELSE (IF Head(parts) = DSTAR THEN 2
        ELSE IF has_magic(Head(parts)) THEN 1
        ELSE 0) + WildcardCount(Tail(parts))

\* path_weight(pathname) = (part_num, concrete_level)
path_weight(pathname) ==
  LET pathname_parts == Parts(pathname)
      wildcard_count == IF has_magic(pathname)
                        THEN WildcardCount(pathname_parts) ELSE 0
  IN  << Len(pathname_parts), 0 - wildcard_count >>

\* a <= b for Python 2-tuples of int
TupleLE(a, b) == a[1] < b[1] \/ (a[1] = b[1] /\ a[2] <= b[2])

\* _merge_globs with the tie going to the include (a strict comparison in
\* place of <=)
merge_globs_tie_to_include(include_globs, excludes_globs) ==
  LET wins == { path \in DOMAIN include_globs :
                  /\ path \in DOMAIN excludes_globs
                  /\ TupleLE(path_weight(excludes_globs[path]),
                             path_weight(include_globs[path])) }
      loses == { path \in DOMAIN include_globs :
                  /\ path \in DOMAIN excludes_globs
                  /\ path \notin wins }
  IN  [ includes |-> (DOMAIN include_globs) \ loses,
        excludes |-> (DOMAIN excludes_globs) \ wins ]

\* _merge_globs: the include paths and the exclude paths that remain
merge_globs(include_globs, excludes_globs) ==
  LET wins == { path \in DOMAIN include_globs :
                  /\ path \in DOMAIN excludes_globs
                  /\ ~TupleLE(path_weight(include_globs[path]),
                              path_weight(excludes_globs[path])) }
      loses == { path \in DOMAIN include_globs :
                  /\ path \in DOMAIN excludes_globs
                  /\ path \notin wins }
  IN  [ includes |-> (DOMAIN include_globs) \ loses,
        excludes |-> (DOMAIN excludes_globs) \ wins ]

\* utils.is_python_package(fullpath), fullpath given by its parts
is_python_package(t, p) ==
  /\ isdir(t, p)
  /\ p # << >>
  /\ p[Len(p)] \notin { <<"_","_","p","y","c","a","c","h","e","_","_">>,
                        <<"_","_","p","y","p","a","c","k","a","g","e","s","_","_">> }
  /\ isfile(t, p \o <<INIT_PY>>)

\* BuildConfig.package_dir: the modelled trees have no src directory and
\* set no package-dir
package_dir == << >>

\* package_dir or "."
PackageDirOrDot == IF package_dir = << >> THEN DOT ELSE package_dir

\* _find_top_packages(root): os.path.join(root, name) of the package
\* directories in root
find_top_packages(t, root) ==
  { root \o <<"/">> \o n : n \in { m \in listdir(t, Parts(root)) :
                                     is_python_package(t, Parts(root) \o <<m>>) } }

\* Builder.DEFAULT_EXCLUDES
DEFAULT_EXCLUDES == { <<".","p","d","m","-","b","u","i","l","d">> }

\* Builder._get_include_and_exclude without the source-includes being
\* excluded from the non-sdist targets
get_include_and_exclude_no_target(t, target, cfg) ==
  LET source_includes == IF cfg.source_includes = {} THEN {TESTS}
                         ELSE cfg.source_includes
      top_packages == find_top_packages(t, PackageDirOrDot)
      declared == IF cfg.includes = {}
                  THEN IF top_packages # {} THEN top_packages
                       ELSE { PackageDirOrDot \o <<"/">> \o STAR_PY }
                  ELSE cfg.includes
  IN  [ includes |-> declared \cup source_includes,
        excludes |-> DEFAULT_EXCLUDES \cup cfg.excludes ]

\* Builder._get_include_and_exclude: the include and the exclude patterns
get_include_and_exclude(t, target, cfg) ==
  LET source_includes == IF cfg.source_includes = {} THEN {TESTS}
                         ELSE cfg.source_includes
      meta_excludes == IF target # "sdist"
                       THEN cfg.excludes \cup source_includes
                       ELSE cfg.excludes
      top_packages == find_top_packages(t, PackageDirOrDot)
      declared == IF cfg.includes = {}
                  THEN IF top_packages # {} THEN top_packages
                       ELSE { PackageDirOrDot \o <<"/">> \o STAR_PY }
                  ELSE cfg.includes
  IN  [ includes |-> declared \cup source_includes,
        excludes |-> DEFAULT_EXCLUDES \cup meta_excludes ]

\* the orders in which a Python set of strings can be iterated
RECURSIVE Orders(_)
Orders(S) ==
  IF S = {} THEN { << >> }
  ELSE UNION { { << x >> \o o : o \in Orders(S \ {x}) } : x \in S }

\* { normpath(path): key for key in keys for path in iglob(key) } when hits
\* holds << key, path >> for every path that iglob(key) gives and the keys
\* that resolve a path are iterated in order o: the last key that resolves a
\* path stays
GlobDict(hits, o) ==
  [ path \in { h[2] : h \in hits } |->
      LET owners == { h[1] : h \in { g \in hits : g[2] = path } }
      IN  IF Cardinality(owners) = 1 THEN CHOOSE key \in owners : TRUE
          ELSE o[CHOOSE i \in DOMAIN o :
                   /\ o[i] \in owners
                   /\ \A j \in DOMAIN o : j > i => o[j] \notin owners] ]

\* the keys that resolve a path that another key resolves too
SharedKeys(hits) ==
  { h[1] : h \in { g \in hits : \E f \in hits : f[2] = g[2] /\ f[1] # g[1] } }

\* the dictionaries the comprehension can build from a set of patterns: one
\* for each order of the keys that share a path with another key (the place
\* of a key that shares no path changes nothing)
GlobDicts(t, keys) ==
  UNION { { GlobDict(hits, o) : o \in Orders(SharedKeys(hits)) } :
          hits \in { UNION { { << key, path >> : path \in GlobPaths(t, key) } :
                              key \in keys } } }

\* Builder._is_excluded(path, exclude_paths)
is_excluded(path, exclude_paths) ==
  \E exclude_path \in exclude_paths :
     \/ is_same_or_descendant_path(path, exclude_path)
     \/ fnmatch(path, exclude_path)

\* a file of the project tree as a FileMap value
RootFile(path) == << "root", path >>

\* a file of the scratch build directory as a FileMap value
BuildFile(path) == << "build", path >>

\* FileMap.__normalize_path on a POSIX platform
normalize_path(path) == normpath(path)

\* Builder._collect_files without the exclusion test on walked files
collect_files_no_exclusion(t, includes, excludes) ==
  LET direct == { include_path \in includes : isfile(t, Parts(include_path)) }
      walked == UNION { { PathStr(p) : p \in FilesBeneath(t, Parts(include_path)) } :
                        include_path \in includes \ direct }
      kept   == { rel_path \in walked : ~EndsWith(rel_path, <<".","p","y","c">>) }
  IN  [ key \in { normalize_path(k) : k \in direct \cup kept } |-> RootFile(key) ]

\* Builder._collect_files: the FileMap built from the resolved include paths
\* and exclude paths (a function from archive-relative path to source)
collect_files(t, includes, excludes) ==
  LET direct == { include_path \in includes : isfile(t, Parts(include_path)) }
      walked == UNION { { PathStr(p) : p \in FilesBeneath(t, Parts(include_path)) } :
                        include_path \in includes \ direct }
      kept   == { rel_path \in walked :
                    /\ ~EndsWith(rel_path, <<".","p","y","c">>)
                    /\ ~is_excluded(rel_path, excludes) }
  IN  [ key \in { normalize_path(k) : k \in direct \cup kept } |-> RootFile(key) ]

(***************************************************************************)
(* Package discovery and the editable hook (config.py, utils.py,           *)
(* editable.py, _vendor/editables).                                        *)
(***************************************************************************)
\* s.replace(a, b) for single characters
ReplaceChar(s, a, b) == [ i \in 1..Len(s) |-> IF s[i] = a THEN b ELSE s[i] ]

\* utils.to_filename(name)
to_filename(name) == ReplaceChar(name, "-", "_")

\* os.path.basename(path)
basename(path) ==
  LET parts == SplitSlash(path) IN parts[Len(parts)]

\* os.path.splitext(path)[1]: from the last dot of the base name, unless
\* only dots precede it
splitext_ext(path) ==
  LET base == basename(path)
      dots == { i \in 1..Len(base) : base[i] = "." }
  IN  IF dots = {} THEN << >>
      ELSE LET i == CHOOSE k \in dots : \A j \in dots : j <= k
           IN  IF \A j \in 1..(i - 1) : base[j] = "." THEN << >>
               ELSE SubSeq(base, i, Len(base))

\* the directories os.walk visits below `where` when directories with a
\* dot in their name are not descended into
WalkedDirs(t, where) ==
  { d \in Beneath(t, where) :
      /\ isdir(t, d)
      /\ \A i \in (Len(where) + 1)..Len(d) : ~Contains(d[i], ".") }

\* the dotted package name of a directory relative to src "."
RECURSIVE JoinDot(_)
JoinDot(parts) ==
  IF parts = << >> THEN << >>
  ELSE IF Len(parts) = 1 THEN parts[1]
  ELSE parts[1] \o <<".">> \o JoinDot(Tail(parts))

\* utils.find_packages_iter(where, exclude, src=".")
find_packages_iter(t, where, exclude) ==
  { JoinDot(d) : d \in { e \in WalkedDirs(t, Parts(where)) :
                           /\ isfile(t, e \o <<INIT_PY>>)
                           /\ ~\E pat \in exclude : fnmatch(JoinDot(e), pat) } }

\* include with a trailing "/*" removed
StripSlashStar(include) ==
  IF EndsWith(include, <<"/","*">>)
  THEN SubSeq(include, 1, Len(include) - 2) ELSE include

\* s.rstrip("/")
RECURSIVE RStripSlash(_)
RStripSlash(s) ==
  IF s # << >> /\ s[Len(s)] = "/" THEN RStripSlash(SubSeq(s, 1, Len(s) - 1))
  ELSE s

\* s.lstrip("./")
RECURSIVE LStripDotSlash(_)
LStripDotSlash(s) ==
  IF s # << >> /\ s[1] \in {".", "/"} THEN LStripDotSlash(Tail(s)) ELSE s

\* Config.convert_package_paths: the packages and py_modules it returns, or
\* the error it raises
convert_package_paths(t, cfg) ==
  IF cfg.includes = {}
  THEN LET packages == find_packages_iter(t, PackageDirOrDot,
                         { TESTS, TESTS \o <<".","*">> })
           py_modules == IF packages # {} THEN {}
                         ELSE { SubSeq(n, 1, Len(n) - 3) :
                                  n \in { m \in listdir(t, Parts(PackageDirOrDot)) :
                                            /\ isfile(t, Parts(PackageDirOrDot) \o <<m>>)
                                            /\ fnmatch(m, STAR_PY) } }
       IN  [ error |-> "none", packages |-> packages, py_modules |-> py_modules ]
  ELSE LET \* the includes that name a directory, after "/*" is removed
           dirs == { include \in cfg.includes :
                       /\ ~Contains(StripSlashStar(include), "*")
                       /\ isdir(t, Parts(StripSlashStar(include))) }
           \* includes.remove(include) is given the stripped text
           missing == { include \in dirs :
                          StripSlashStar(include) # include }
           packages ==
             UNION { LET dir_name == RStripSlash(StripSlashStar(include))
                     IN  find_packages_iter(t, dir_name, {})
                         \cup (IF isfile(t, Parts(dir_name) \o <<INIT_PY>>)
                               THEN {dir_name} ELSE {}) : include \in dirs }
           rest == cfg.includes \ dirs
           py_modules ==
             UNION { { SubSeq(LStripDotSlash(path), 1, Len(LStripDotSlash(path)) - 3) :
                        path \in { q \in GlobPaths(t, include) :
                                     /\ ~Contains(LStripDotSlash(q), "/")
                                     /\ EndsWith(q, <<".","p","y">>) } } :
                     include \in rest }
       IN  IF missing # {}
           THEN [ error |-> "ValueError", packages |-> {}, py_modules |-> {} ]
           ELSE IF packages # {} /\ py_modules # {}
           THEN [ error |-> "ConfigError", packages |-> {}, py_modules |-> {} ]
           ELSE [ error |-> "none", packages |-> packages, py_modules |-> py_modules ]

\* the project name and version of the modelled project
PROJECT_NAME == <<"d","e","m","o">>
PROJECT_VERSION == <<"0",".","1",".","0">>

\* EditableBuildHook.editable_version(version)
editable_version(version) ==
  IF Contains(version, "+")
  THEN version \o <<".","e","d","i","t","a","b","l","e">>
  ELSE version \o <<"+","e","d","i","t","a","b","l","e">>

\* _prepare_editable without the fallback to a path entry
prepare_editable_no_fallback(t, cfg, pp) ==
  [ error |-> "none", redirections |-> {}, path_entries |-> {},
    warned |-> cfg.editable_backend = "editables" ]

\* EditableBuildHook._prepare_editable: the redirections and path entries of
\* the EditableProject (module names to the parts of the mapped file)
prepare_editable(t, cfg, pp) ==
  LET mapped_packages ==
        IF cfg.editable_backend = "editables"
        THEN { package \in pp.packages : ~Contains(package, ".") }
        ELSE {}
      mapped_modules ==
        IF cfg.editable_backend = "editables"
        THEN { module \in pp.py_modules :
                 /\ ~Contains(module, ".")
                 /\ isfile(t, Parts(package_dir) \o <<module \o <<".","p","y">>>>) }
        ELSE {}
      \* EditableProject.map raises when the target is no package or module
      invalid == { package \in mapped_packages :
                     ~isfile(t, Parts(package_dir) \o Parts(package) \o <<INIT_PY>>) }
      redirections == mapped_packages \cup mapped_modules
  IN  [ error |-> IF invalid # {} THEN "EditableException" ELSE "none",
        redirections |-> redirections,
        path_entries |-> IF redirections = {} THEN { PackageDirOrDot } ELSE {},
        warned |-> redirections = {} /\ cfg.editable_backend = "editables" ]

\* the names of EditableProject.files()
PTH_FILE == PROJECT_NAME \o <<".","p","t","h">>
BOOTSTRAP_FILE ==
  <<"_","e","d","i","t","a","b","l","e","_","i","m","p","l","_">>
  \o PROJECT_NAME \o <<".","p","y">>

\* EditableProject.files() that yields the bootstrap file every time
editables_files_with_bootstrap(editables) ==
  {PTH_FILE, BOOTSTRAP_FILE}

\* the names of the files EditableProject.files() yields
editables_files(editables) ==
  {PTH_FILE} \cup (IF editables.redirections # {} THEN {BOOTSTRAP_FILE} ELSE {})

\* editable.is_subpath(path, parent)
is_subpath(path, parent) == StartsWith(path, parent)

\* the keys EditableBuildHook.pdm_build_update_files deletes from the FileMap
EditableRemoved(keys, packages) ==
  LET proxied == { ReplaceChar(p, ".", "/") : p \in packages }
  IN  { relpath \in keys :
          \/ splitext_ext(relpath) \in { <<".","p","y">>, <<".","p","y","c">>,
                                         <<".","p","y","o">> }
          \/ \E p \in proxied : is_subpath(relpath, p) }

(***************************************************************************)
(* The file set of a build (base.py, wheel.py, sdist.py).                  *)
(***************************************************************************)
\* the name of the scratch build directory below the project root
PDM_BUILD == <<".","p","d","m","-","b","u","i","l","d">>

\* Context.ensure_build_dir: a new build directory gets a .gitignore
ensure_build_dir(bd) ==
  IF bd.exists THEN bd ELSE [ exists |-> TRUE, files |-> {GITIGNORE} ]

\* WheelBuilder._collect_files.clean_prefix(relpath)
clean_prefix(relpath) ==
  IF package_dir # << >> /\ StartsWith(relpath, package_dir \o <<"/">>)
  THEN SubSeq(relpath, Len(package_dir) + 2, Len(relpath))
  ELSE relpath

\* WheelBuilder._collect_files: the collected FileMap re-keyed by clean_prefix
wheel_collect_files(fm) ==
  [ key \in { normalize_path(clean_prefix(k)) : k \in DOMAIN fm } |->
      fm[CHOOSE k \in DOMAIN fm : normalize_path(clean_prefix(k)) = key] ]

\* files.update(other) for FileMaps
FileMapUpdate(fm, other) ==
  [ key \in (DOMAIN fm) \cup (DOMAIN other) |->
      IF key \in DOMAIN other THEN other[key] ELSE fm[key] ]

\* Builder._collect_build_files: the files of the build directory that the
\* exclude patterns do not cover
collect_build_files(bd, excludes) ==
  LET kept == IF bd.exists
              THEN { rel_path \in bd.files : ~is_excluded(rel_path, excludes) }
              ELSE {}
  IN  [ key \in { normalize_path(k) : k \in kept } |-> BuildFile(key) ]

\* WheelBuilder.dist_info_name (canonicalize_name and safe_version leave the
\* name and the versions of the modelled project, which are in normal form,
\* as they are)
dist_info_name(version) ==
  to_filename(PROJECT_NAME) \o <<"-">> \o to_filename(version)
  \o <<".","d","i","s","t","-","i","n","f","o">>

\* the files WheelBuilder._write_dist_info writes below the dist-info
\* directory of a project without license files
DistInfoFiles ==
  { <<"e","n","t","r","y","_","p","o","i","n","t","s",".","t","x","t">>,
    <<"W","H","E","E","L">>,
    <<"M","E","T","A","D","A","T","A">> }

\* the parts of the path of a FileMap value below the project root
SourceParts(src) ==
  IF src[1] = "build" THEN <<PDM_BUILD>> \o Parts(src[2]) ELSE Parts(src[2])

\* p < q for pathlib paths: lexicographic on the parts
RECURSIVE PartsLess(_, _)
PartsLess(p, q) ==
  IF q = << >> THEN FALSE
  ELSE IF p = << >> THEN TRUE
  ELSE IF Head(p) = Head(q) THEN PartsLess(Tail(p), Tail(q))
  ELSE StrLess(Head(p), Head(q))

\* a < b for (relpath, path) tuples
ItemLess(a, b) ==
  \/ StrLess(a[1], b[1])
  \/ (a[1] = b[1] /\ PartsLess(SourceParts(a[2]), SourceParts(b[2])))

\* sorted(items) for a sequence of (relpath, path) tuples
\* (the sort is stable)
SortItems(items) ==
  LET n == Len(items)
      before == [ k \in 1..n |->
                  Cardinality({ j \in 1..n :
                    \/ ItemLess(items[j], items[k])
                    \/ (j < k /\ ~ItemLess(items[k], items[j])) }) ]
  IN  [ i \in 1..n |-> items[CHOOSE k \in 1..n : before[k] = i - 1] ]

\* FileMap.items() as a sequence
RECURSIVE ItemsOf(_, _)
ItemsOf(fm, keys) ==
  IF keys = << >> THEN << >>
  ELSE << << Head(keys), fm[Head(keys)] >> >> \o ItemsOf(fm, Tail(keys))

\* the patterns of the build configuration
PAT_ANY_JSON == JoinSlash(<<DSTAR, STAR_JSON>>)
PAT_DATA_ALL == JoinSlash(<<PKG, DATA, STAR>>)
PAT_DATA_Y == JoinSlash(<<PKG, DATA, Y_JSON>>)
PAT_PKG_PYC == JoinSlash(<<PKG, STAR_PYC>>)
PAT_DATA_JSON == JoinSlash(<<PKG, DATA, STAR_JSON>>)
PAT_DATA_DIR == JoinSlash(<<PKG, DATA, << >>>>)
PAT_DATA == JoinSlash(<<PKG, DATA>>)
PAT_TESTS_Y == JoinSlash(<<TESTS, Y_JSON>>)

\* the patterns tool.pdm.build.includes is drawn from
IncludePool == { PAT_ANY_JSON, PAT_DATA_ALL, PKG, PAT_DATA_Y, PAT_PKG_PYC }

\* the patterns tool.pdm.build.excludes is drawn from
ExcludePool == { PAT_DATA_JSON, PAT_DATA_DIR, PAT_DATA_Y, PAT_TESTS_Y }

\* the values of tool.pdm.build.source-includes
SourceIncludeChoices == { {}, { PAT_DATA } }

UpTo(S, n) == { T \in SUBSET S : Cardinality(T) <= n }

\* the build configurations of the model
Configs(target) ==
  [ includes : UpTo(IncludePool, MaxPatterns),
    excludes : UpTo(ExcludePool, MaxPatterns),
    source_includes : SourceIncludeChoices,
    editable_backend : IF target = "editable" THEN {"path", "editables"}
                       ELSE {"path"} ]

Targets == {"sdist", "wheel", "editable"}

\* what an earlier build can leave in the scratch build directory
StaleBuildDirs ==
  { [ exists |-> FALSE, files |-> {} ],
    [ exists |-> TRUE, files |-> { GITIGNORE, PYPROJECT_TOML } ] }

(***************************************************************************)
(* The hook pipeline (base.py, hooks/base.py).                             *)
(***************************************************************************)
\* largest number of plugins in the pdm.build.hook entry-point group
MaxPlugins == 1
\* largest number of build calls on one Builder object
MaxBuilds == 2

UpperLetters ==
  << "A", "B", "C", "D", "E", "F", "G", "H", "I", "J", "K", "L", "M",
     "N", "O", "P", "Q", "R", "S", "T", "U", "V", "W", "X", "Y", "Z" >>
LowerLetters ==
  << "a", "b", "c", "d", "e", "f", "g", "h", "i", "j", "k", "l", "m",
     "n", "o", "p", "q", "r", "s", "t", "u", "v", "w", "x", "y", "z" >>

\* str.lower()
lower(s) ==
  [ i \in 1..Len(s) |->
      IF \E k \in 1..26 : UpperLetters[k] = s[i]
      THEN LowerLetters[CHOOSE k \in 1..26 : UpperLetters[k] = s[i]]
      ELSE s[i] ]

\* the values of the environment variable PDM_BUILD_NO_CLEAN in the model
EnvValues == { <<"1">>, <<"0">>, <<"F","a","l","s","e">> }

\* the values of config_settings["no-clean-build"], by their Python
\* literals
NoCleanValues == { "''", "True", "None" }

\* should_clean that takes the truth value of config_settings["no-clean-build"]
should_clean_by_value(ncb, env) ==
  IF ncb # << >> /\ ncb[1] = "True" THEN FALSE
  ELSE IF env # << >>
       THEN lower(env[1]) \in { <<"0">>, <<"f","a","l","s","e">>, <<"n","o">> }
       ELSE TRUE

\* should_clean as Builder.build computes it from config_settings and the
\* environment (ncb is << >> when "no-clean-build" is not a key of
\* config_settings and << value >> when it is; env is << >> when
\* PDM_BUILD_NO_CLEAN is unset, << value >> when it is set)
should_clean(ncb, env) ==
  IF ncb # << >> THEN FALSE
  ELSE IF env # << >>
       THEN lower(env[1]) \in { <<"0">>, <<"f","a","l","s","e">>, <<"n","o">> }
       ELSE TRUE

\* the phases of call_hook, by hook method name
PhaseMethods == { "pdm_build_clean", "pdm_build_initialize",
                  "pdm_build_update_files", "pdm_build_finalize" }

\* DynamicVersionBuildHook: pdm_build_initialize only
DynamicVersionBuildHook ==
  [ kind |-> "DynamicVersionBuildHook", ep |-> 0,
    methods |-> {"pdm_build_initialize"},
    predicate |-> "absent", effect |-> "none" ]

\* SetuptoolsBuildHook: pdm_build_hook_enabled and pdm_build_update_files
SetuptoolsBuildHook ==
  [ kind |-> "SetuptoolsBuildHook", ep |-> 0,
    methods |-> {"pdm_build_update_files"},
    predicate |-> "setuptools", effect |-> "none" ]

\* EditableBuildHook: pdm_build_initialize and pdm_build_update_files
EditableBuildHook ==
  [ kind |-> "EditableBuildHook", ep |-> 0,
    methods |-> {"pdm_build_initialize", "pdm_build_update_files"},
    predicate |-> "absent", effect |-> "none" ]

\* the shapes of user hooks: the methods a hook defines, its
\* pdm_build_hook_enabled predicate if any, and what it does to the context
HookShapes ==
  { [ methods |-> PhaseMethods, predicate |-> "absent", effect |-> "add_file" ],
    [ methods |-> PhaseMethods, predicate |-> "not_sdist", effect |-> "none" ],
    [ methods |-> {"pdm_build_initialize"}, predicate |-> "absent",
      effect |-> "run_setuptools" ] }

\* the shapes of the project-local hook module
LocalShapes ==
  { [ methods |-> {"pdm_build_update_files", "pdm_build_finalize"},
      predicate |-> "absent", effect |-> "add_file" ],
    [ methods |-> PhaseMethods, predicate |-> "disabled", effect |-> "none" ] }

\* the class attribute `hooks` of the builder class of a target
class_hooks(tgt) ==
  IF tgt = "sdist" THEN << DynamicVersionBuildHook >>
  ELSE IF tgt = "wheel" THEN << DynamicVersionBuildHook, SetuptoolsBuildHook >>
  ELSE << DynamicVersionBuildHook, SetuptoolsBuildHook, EditableBuildHook >>

\* Builder.get_hooks with the local hook loaded before the plugins
get_hooks_local_first(tgt, eps, local) ==
  class_hooks(tgt)
  \o [ i \in 1..Len(local) |->
         [ kind |-> "local", ep |-> 0, methods |-> local[i].methods,
           predicate |-> local[i].predicate, effect |-> local[i].effect ] ]
  \o [ i \in 1..Len(eps) |->
         [ kind |-> "plugin", ep |-> i, methods |-> eps[i].methods,
           predicate |-> eps[i].predicate, effect |-> eps[i].effect ] ]

\* Builder.get_hooks: the class hooks, the entry-point plugins in entry-point
\* order, then the local hook
get_hooks(tgt, eps, local) ==
  class_hooks(tgt)
  \o [ i \in 1..Len(eps) |->
         [ kind |-> "plugin", ep |-> i, methods |-> eps[i].methods,
           predicate |-> eps[i].predicate, effect |-> eps[i].effect ] ]
  \o [ i \in 1..Len(local) |->
         [ kind |-> "local", ep |-> 0, methods |-> local[i].methods,
           predicate |-> local[i].predicate, effect |-> local[i].effect ] ]

\* call_hook without the test of pdm_build_hook_enabled
hook_enabled_ignored(hook, tgt, rs) == TRUE

\* hasattr(hook, "pdm_build_hook_enabled") and the value it returns
\* (SetuptoolsBuildHook.pdm_build_hook_enabled for the built-in hook)
hook_enabled(hook, tgt, rs) ==
  IF hook.predicate = "absent" THEN TRUE
  ELSE IF hook.predicate = "setuptools" THEN tgt # "sdist" /\ rs
  ELSE IF hook.predicate = "not_sdist" THEN tgt # "sdist"
  ELSE FALSE

\* call_hook with the call of the hook method in a try / except that goes on
\* to the next hook
call_hook_outcome_swallowed(result) == "next_hook"

\* what call_hook does with the result of a hook method: an exception is
\* not caught, so it ends call_hook and build
call_hook_outcome(result) ==
  IF result = "raise" THEN "raised" ELSE "next_hook"

(***************************************************************************)
(* The wheel writer (wheel.py, sdist.py).                                  *)
(***************************************************************************)
\* largest number of files handed to build_artifact
MaxFiles == 2
\* largest number of bytes of a file
MaxLen == 2

\* the byte values of file contents
Bytes == { 10, 255 }

\* the contents a file can have
Contents == UNION { [ 1..n -> Bytes ] : n \in 0..MaxLen }

\* a 16-bit stand-in for hashlib.sha256(data).digest(): two check bytes
\* computed over every byte of data in order
RECURSIVE sha256_sums(_, _, _)
sha256_sums(data, a, b) ==
  IF data = << >> THEN << a, b >>
  ELSE LET a2 == (a + Head(data)) % 251
       IN  sha256_sums(Tail(data), a2, (b + a2) % 251)

sha256(data) == sha256_sums(data, 1, 0)

\* the URL-safe base64 alphabet
B64Alphabet == UpperLetters \o LowerLetters
  \o << "0", "1", "2", "3", "4", "5", "6", "7", "8", "9", "-", "_" >>

\* base64.urlsafe_b64encode of a two-byte digest: three sextets and one pad
urlsafe_b64encode(digest) ==
  LET bits == (digest[1] * 256 + digest[2]) * 4
  IN  << B64Alphabet[(bits \div 4096) + 1],
         B64Alphabet[((bits \div 64) % 64) + 1],
         B64Alphabet[(bits % 64) + 1],
         "=" >>

\* s.rstrip("=")
RECURSIVE rstrip_eq(_)
rstrip_eq(s) ==
  IF s # << >> /\ s[Len(s)] = "=" THEN rstrip_eq(SubSeq(s, 1, Len(s) - 1))
  ELSE s

Digits == << "0", "1", "2", "3", "4", "5", "6", "7", "8", "9" >>

\* str(n) for a natural number
RECURSIVE str_int(_)
str_int(n) ==
  IF n < 10 THEN << Digits[n + 1] >>
  ELSE str_int(n \div 10) \o << Digits[(n % 10) + 1] >>

\* bitwise a & b and a | b on natural numbers
RECURSIVE BitAnd(_, _)
BitAnd(a, b) ==
  IF a = 0 \/ b = 0 THEN 0
  ELSE (a % 2) * (b % 2) + 2 * BitAnd(a \div 2, b \div 2)

RECURSIVE BitOr(_, _)
BitOr(a, b) ==
  IF a = 0 THEN b
  ELSE IF b = 0 THEN a
  ELSE (IF a % 2 = 1 \/ b % 2 = 1 THEN 1 ELSE 0) + 2 * BitOr(a \div 2, b \div 2)

\* a & ~b
BitClear(a, b) == a - BitAnd(a, b)

\* normalize_file_permissions(st_mode): (st_mode | 0o644) & ~0o133, and
\* | 0o111 when st_mode & 0o100
normalize_file_permissions(st_mode) ==
  LET new_mode == BitClear(BitOr(st_mode, 420), 91)
  IN  IF BitAnd(st_mode, 64) # 0 THEN BitOr(new_mode, 73) ELSE new_mode

\* the st_mode values of source files: regular files 0o100644, 0o100755,
\* 0o100600
FileModes == { 33188, 33261, 33152 }

\* ZIPINFO_DATE_TIME without SOURCE_DATE_EPOCH
ZIPINFO_DATE_TIME == << 2016, 1, 1, 0, 0, 0 >>

SHA256_PREFIX == <<"s","h","a","2","5","6","=">>

\* _write_zip_info without hashsum.update(data): the digest of no bytes
write_zip_info_no_update(data) ==
  [ stored |-> data,
    hash_digest |-> rstrip_eq(urlsafe_b64encode(sha256(<< >>))) ]

\* WheelBuilder._write_zip_info: the bytes stored in the archive entry and
\* the digest text returned
write_zip_info(data) ==
  [ stored |-> data,
    hash_digest |-> rstrip_eq(urlsafe_b64encode(sha256(data))) ]

\* WheelBuilder._add_file_to_zip: the archive entry and the RecordEntry of a
\* file whose stat gives st_mode and whose read gives data; the 32-bit
\* external_attr is kept as its high and low 16-bit halves
add_file_to_zip(rel_path, st_mode, data) ==
  LET w == write_zip_info(data)
  IN  [ entry |-> [ filename |-> rel_path,
                    date_time |-> ZIPINFO_DATE_TIME,
                    external_attr |->
                      << BitAnd(normalize_file_permissions(st_mode), 65535), 0 >>,
                    data |-> w.stored ],
        record |-> [ relpath |-> rel_path,
                     hash_digest |-> SHA256_PREFIX \o w.hash_digest,
                     size |-> str_int(Len(w.stored)) ] ]

RECORD_NAME == <<"R","E","C","O","R","D">>

\* _write_record without the row of RECORD itself
record_rows_without_own(records, filename) == records

\* the rows WheelBuilder._write_record writes: the records, then the row of
\* RECORD itself
record_rows(records, filename) ==
  records \o << [ relpath |-> filename, hash_digest |-> << >>, size |-> << >> ] >>

\* the archive-relative paths build_artifact is handed in the model
WheelPathPool(ver) ==
  { MOD_PY,
    JoinSlash(<<PKG, INIT_PY>>),
    dist_info_name(ver) \o <<"/">> \o <<"W","H","E","E","L">> }

\* Builder.build with finalize called before build_artifact
build_plan_finalize_first(clean) ==
  (IF clean THEN << "clean" >> ELSE << >>)
  \o << "initialize", "get_files", "finalize", "build_artifact" >>

\* the steps of Builder.build in order
build_plan(clean) ==
  (IF clean THEN << "clean" >> ELSE << >>)
  \o << "initialize", "get_files", "build_artifact", "finalize" >>

\* the hook method a step of Builder.build hands to call_hook
hook_name(step) ==
  IF step = "clean" THEN "pdm_build_clean"
  ELSE IF step = "initialize" THEN "pdm_build_initialize"
  ELSE IF step = "get_files" THEN "pdm_build_update_files"
  ELSE "pdm_build_finalize"

\* where a step of Builder.build begins: get_files collects before it calls
\* the hooks, build_artifact calls no hook
entry(step) ==
  IF step = "get_files" THEN "pre"
  ELSE IF step = "build_artifact" THEN "body"
  ELSE "hooks"

SETUP_PY == <<"s","e","t","u","p",".","p","y">>
EXT_SO == <<"e","x","t",".","s","o">>
HOOK_TXT == <<"h","o","o","k",".","t","x","t">>

\* the files SdistBuilder.get_files / WheelBuilder.get_files add
extra_files(t, tgt, ver) ==
  IF tgt = "sdist"
  THEN IF lexists(t, <<PYPROJECT_TOML>>)
       THEN << << PYPROJECT_TOML, RootFile(PYPROJECT_TOML) >> >>
       ELSE << >>
  ELSE LET names == Sorted({ dist_info_name(ver) \o <<"/">> \o f : f \in DistInfoFiles })
       IN  [ i \in 1..Len(names) |-> << names[i], BuildFile(names[i]) >> ]

\* the build directory after WheelBuilder._get_metadata_files
write_dist_info(bd, tgt, ver) ==
  IF tgt = "sdist" THEN bd
  ELSE [ ensure_build_dir(bd) EXCEPT
           !.files = @ \cup { dist_info_name(ver) \o <<"/">> \o f : f \in DistInfoFiles } ]

\* the build configuration of a project that sets no tool.pdm.build key
DefaultConfig ==
  [ includes |-> {}, excludes |-> {}, source_includes |-> {},
    editable_backend |-> "path" ]

NoEditables ==
  [ error |-> "none", redirections |-> {}, path_entries |-> {}, warned |-> FALSE ]

VARIABLES
  tree,            \* the files of the project root
  target,          \* Builder.target
  cfg,             \* the tool.pdm.build table
  build_dir,       \* the scratch build directory .pdm-build
  version,         \* metadata["version"]
  editables,       \* context.editables
  fpc,             \* the position in clean / initialize / get_files
  include_globs,   \* the include dictionary handed to _merge_globs
  excludes_globs,  \* the exclude dictionary handed to _merge_globs
  include_paths,   \* the sorted include paths
  exclude_paths,   \* the sorted exclude paths
  files,           \* the FileMap
  file_items,      \* sorted(get_files(context))
  no_clean_build,  \* config_settings.get("no-clean-build"), << >> without the key
  env_no_clean,    \* PDM_BUILD_NO_CLEAN in os.environ: << >> or << value >>
  run_setuptools,  \* build_config.run_setuptools
  entry_points,    \* entry_points(group="pdm.build.hook")
  local_hook,      \* build_config.custom_hook, loaded: << >> or << hook >>
  hooks,           \* Builder._hooks
  todo,            \* the steps of Builder.build still to run, current first
  bpc,             \* the position in Builder.build
  hidx,            \* the position of the loop of call_hook
  log,             \* what has run so far, in order
  error,           \* the exception leaving Builder.build: << >> or << e >>
  artifact,        \* what build_artifact returned: << >> or << artifact >>
  wfiles,          \* the files handed to WheelBuilder.build_artifact
  widx,            \* the position of the loop over files
  zf,              \* the entries of the archive, in write order
  records,         \* the list of RecordEntry
  wpc,             \* the position in WheelBuilder.build_artifact
  dist,            \* the wheel file in the dist directory
  fm_data,         \* FileMap.__data
  fm_last,         \* the last operation on the FileMap and its outcome
  pyproject,       \* the [project] and [tool.pdm.version] tables of the root pyproject.toml
  metadata,        \* context.config.metadata
  frozen,          \* the content of build_dir/pyproject.toml
  source_date_epoch, \* os.environ.get("SOURCE_DATE_EPOCH")
  sfiles,          \* the sorted files of SdistBuilder.build_artifact
  sidx,            \* the index of the next file to add to the tar
  tar,             \* the members of the tar archive
  spc,             \* the position in the sdist build
  tarball,         \* the sdist file in the dist directory
  builds,          \* the number of archives this Builder object has written
  requires_dist,   \* context.config.metadata["dependencies"]
  warnings,        \* the warnings of the editable build
  pth,             \* the lines of the .pth file in the build directory
  ep_redirections, \* EditableProject.redirections of a project object
  ep_last,         \* the last call of EditableProject.map and its outcome
  epc,             \* the position in the editable build
  tag_settings,    \* --python-tag, --py-limited-api, --plat-name, --build-number of config_settings
  is_purelib,      \* config.build_config.is_purelib
  wheel_tag,       \* WheelBuilder.__tag
  tpc,             \* the position in the build of the tagged wheel
  tagged_dist,     \* the tags of the wheel in the dist directory
  wheel_metadata,  \* requires-python and the entry points of config.metadata
  wheel_lines,     \* the lines of the WHEEL file of the dist-info directory
  wheel_name,      \* the name of the wheel file build_artifact returns
  req_marker,      \* requirement.marker._markers of one optional dependency: << >> or << markers >>
  req_groups,      \* the optional-dependency groups that list the requirement, in order
  rendered,        \* the Requires-Dist lines rendered for it so far
  rpc              \* the position in the rendering of the metadata

fvars == << tree, target, cfg, build_dir, version, editables, fpc,
            include_globs, excludes_globs, include_paths, exclude_paths,
            files, file_items >>

bvars == << no_clean_build, env_no_clean, run_setuptools, entry_points,
            local_hook, hooks, todo, bpc, hidx, log, error, artifact >>

wvars == << wfiles, widx, zf, records, wpc, dist >>

mvars == << fm_data, fm_last >>

\* the variables of the specifications after the first three
svars == << pyproject, metadata, frozen, source_date_epoch, sfiles, sidx,
           tar, spc, tarball >>
cvars == << builds >>
evars == << requires_dist, warnings, pth, ep_redirections, ep_last, epc >>
tvars == << tag_settings, is_purelib, wheel_tag, tpc, tagged_dist,
           wheel_metadata, wheel_lines, wheel_name >>
rvars == << req_marker, req_groups, rendered, rpc >>
xvars == << mvars, svars, cvars, evars, tvars, rvars >>
\* the variables that the build of the tagged wheel leaves alone
not_tvars == << fvars, bvars, wvars, mvars, svars, cvars, evars, rvars >>
\* the variables that the editable build leaves alone
not_evars == << bvars, wvars, mvars, svars, cvars, tvars, rvars >>
\* the variables that the FileMap operations leave alone
not_mvars == << fvars, bvars, wvars, svars, cvars, evars, tvars, rvars >>
\* the variables that the rendering of the metadata leaves alone
not_rvars == << fvars, bvars, wvars, mvars, svars, cvars, evars, tvars >>
\* the variables that the sdist build leaves alone
not_svars == << bvars, wvars, mvars, cvars, evars, tvars, rvars >>

vars == << fvars, bvars, wvars, xvars >>

EmptyMap == [ k \in {} |-> << >> ]

\* no Builder.build in progress
IdleB ==
  /\ no_clean_build = << >>
  /\ env_no_clean = << >>
  /\ run_setuptools = FALSE
  /\ entry_points = << >>
  /\ local_hook = << >>
  /\ hooks = << >>
  /\ todo = << >>
  /\ bpc = "new"
  /\ hidx = 1
  /\ log = << >>
  /\ error = << >>
  /\ artifact = << >>

\* no FileMap in use
IdleM ==
  /\ fm_data = EmptyMap
  /\ fm_last = [ op |-> "new" ]

\* no sdist build in progress
IdleS ==
  /\ pyproject = [ version |-> << >>, dynamic |-> {}, version_config |-> << >> ]
  /\ metadata = [ version |-> << >>, dynamic |-> {} ]
  /\ frozen = << >>
  /\ source_date_epoch = << >>
  /\ sfiles = << >>
  /\ sidx = 1
  /\ tar = << >>
  /\ spc = "idle"
  /\ tarball = "absent"

\* no editable build in progress
IdleE ==
  /\ requires_dist = << >>
  /\ warnings = << >>
  /\ pth = << >>
  /\ ep_redirections = EmptyMap
  /\ ep_last = [ op |-> "new" ]
  /\ epc = "idle"

\* no build of a tagged wheel in progress
IdleT ==
  /\ tag_settings = [ python_tag |-> << >>, py_limited_api |-> << >>,
                      plat_name |-> << >>, build_number |-> << >> ]
  /\ is_purelib = TRUE
  /\ wheel_tag = << >>
  /\ tpc = "idle"
  /\ tagged_dist = << >>
  /\ wheel_metadata = [ requires_python |-> << >>, scripts |-> {},
                        gui_scripts |-> {}, entrypoints |-> {} ]
  /\ wheel_lines = << >>
  /\ wheel_name = << >>

\* none of the later specifications in progress
\* no rendering of the metadata in progress
IdleR ==
  /\ req_marker = << >>
  /\ req_groups = << >>
  /\ rendered = << >>
  /\ rpc = "idle"

IdleX == IdleM /\ IdleS /\ builds = 0 /\ IdleE /\ IdleT /\ IdleR

\* no WheelBuilder.build_artifact in progress
IdleW ==
  /\ wfiles = << >>
  /\ widx = 1
  /\ zf = << >>
  /\ records = << >>
  /\ wpc = "idle"
  /\ dist = "absent"

InitF ==
  /\ tree \in Trees
  /\ target \in Targets
  /\ cfg \in Configs(target)
  /\ build_dir \in StaleBuildDirs
  /\ version = PROJECT_VERSION
  /\ editables = NoEditables
  /\ fpc = "start"
  /\ include_globs = EmptyMap
  /\ excludes_globs = EmptyMap
  /\ include_paths = << >>
  /\ exclude_paths = << >>
  /\ files = EmptyMap
  /\ file_items = << >>
  /\ IdleB
  /\ IdleW
  /\ IdleX

\* Builder.clean: the built-in hooks have no pdm_build_clean
Clean ==
  /\ fpc = "start"
  /\ build_dir' = [ exists |-> FALSE, files |-> {} ]
  /\ fpc' = "cleaned"
  /\ UNCHANGED << tree, target, cfg, version, editables, include_globs,
                  excludes_globs, include_paths, exclude_paths, files,
                  file_items >>
  /\ UNCHANGED << bvars, wvars, xvars >>

\* Builder.initialize / SdistBuilder.initialize with the built-in hooks:
\* EditableBuildHook.pdm_build_initialize for the editable target, then the
\* frozen pyproject.toml of the sdist
Initialize ==
  /\ fpc = "cleaned"
  /\ LET pp == convert_package_paths(tree, cfg)
         ed == prepare_editable(tree, cfg, pp)
     IN  IF target = "editable" /\ (pp.error # "none" \/ ed.error # "none")
         THEN /\ fpc' = "failed"
              /\ UNCHANGED << build_dir, version, editables >>
         ELSE /\ fpc' = "initialized"
              /\ editables' = IF target = "editable" THEN ed ELSE editables
              /\ version' = IF target = "editable"
                            THEN editable_version(version) ELSE version
              /\ build_dir' =
                   IF target = "sdist"
                   THEN [ ensure_build_dir(build_dir) EXCEPT
                            !.files = @ \cup {PYPROJECT_TOML} ]
                   ELSE build_dir
  /\ UNCHANGED << tree, target, cfg, include_globs, excludes_globs,
                  include_paths, exclude_paths, files, file_items >>
  /\ UNCHANGED << bvars, wvars, xvars >>

\* Builder._collect_files (WheelBuilder._collect_files for wheel and
\* editable), with _get_include_and_exclude_paths and _merge_globs
CollectFiles ==
  /\ fpc = "initialized"
  /\ LET ie == get_include_and_exclude(tree, target, cfg)
     IN  \E ig \in GlobDicts(tree, ie.includes), eg \in GlobDicts(tree, ie.excludes) :
           LET m == merge_globs(ig, eg)
               fm == collect_files(tree, m.includes, m.excludes)
           IN  /\ include_globs' = ig
               /\ excludes_globs' = eg
               /\ include_paths' = Sorted(m.includes)
               /\ exclude_paths' = Sorted(m.excludes)
               /\ files' = IF target = "sdist" THEN fm ELSE wheel_collect_files(fm)
  /\ fpc' = "collected"
  /\ UNCHANGED << tree, target, cfg, build_dir, version, editables, file_items >>
  /\ UNCHANGED << bvars, wvars, xvars >>

\* call_hook("pdm_build_update_files") with the built-in hooks, setuptools
\* not being run: EditableBuildHook.pdm_build_update_files
UpdateFiles ==
  /\ fpc = "collected"
  /\ IF target = "editable"
     THEN LET pp == convert_package_paths(tree, cfg)
              kept == (DOMAIN files) \ EditableRemoved(DOMAIN files, pp.packages)
              added == editables_files(editables)
          IN  /\ build_dir' = [ ensure_build_dir(build_dir) EXCEPT
                                  !.files = @ \cup added ]
              /\ files' = FileMapUpdate([ k \in kept |-> files[k] ],
                            [ k \in { normalize_path(n) : n \in added } |-> BuildFile(k) ])
     ELSE UNCHANGED << build_dir, files >>
  /\ fpc' = "updated"
  /\ UNCHANGED << tree, target, cfg, version, editables, include_globs,
                  excludes_globs, include_paths, exclude_paths, file_items >>
  /\ UNCHANGED << bvars, wvars, xvars >>

\* files.update(self._collect_build_files(context))
CollectBuildFiles ==
  /\ fpc = "updated"
  /\ files' = FileMapUpdate(files,
                collect_build_files(build_dir,
                  get_include_and_exclude(tree, target, cfg).excludes))
  /\ fpc' = "merged"
  /\ UNCHANGED << tree, target, cfg, build_dir, version, editables,
                  include_globs, excludes_globs, include_paths, exclude_paths,
                  file_items >>
  /\ UNCHANGED << bvars, wvars, xvars >>

\* the rest of SdistBuilder.get_files / WheelBuilder.get_files, and the
\* sorted() of Builder.build
ExtraFiles ==
  /\ fpc = "merged"
  /\ file_items' = SortItems(ItemsOf(files, Sorted(DOMAIN files))
                             \o extra_files(tree, target, version))
  /\ build_dir' = write_dist_info(build_dir, target, version)
  /\ fpc' = "done"
  /\ UNCHANGED << tree, target, cfg, version, editables, include_globs,
                  excludes_globs, include_paths, exclude_paths, files >>
  /\ UNCHANGED << bvars, wvars, xvars >>

NextF ==
  \/ Clean
  \/ Initialize
  \/ CollectFiles
  \/ UpdateFiles
  \/ CollectBuildFiles
  \/ ExtraFiles

SpecFiles == InitF /\ [][NextF]_vars

(***************************************************************************)
(* Builder.build with its hooks.                                           *)
(***************************************************************************)
fidle == << fpc, include_globs, excludes_globs, include_paths, exclude_paths >>

InitB ==
  /\ tree = CoreFiles \cup { <<PKG, INIT_PY>> }
  /\ target \in Targets
  /\ cfg = DefaultConfig
  /\ build_dir = [ exists |-> TRUE, files |-> { GITIGNORE, PYPROJECT_TOML } ]
  /\ version = PROJECT_VERSION
  /\ editables = NoEditables
  /\ fpc = "start"
  /\ include_globs = EmptyMap
  /\ excludes_globs = EmptyMap
  /\ include_paths = << >>
  /\ exclude_paths = << >>
  /\ files = EmptyMap
  /\ file_items = << >>
  /\ no_clean_build \in { << >> } \cup { << v >> : v \in NoCleanValues }
  /\ env_no_clean \in { << >> } \cup { << v >> : v \in EnvValues }
  /\ run_setuptools \in BOOLEAN
  /\ entry_points \in UNION { [ 1..n -> HookShapes ] : n \in 0..MaxPlugins }
  /\ local_hook \in { << >> } \cup { << h >> : h \in LocalShapes }
  /\ hooks = << >>
  /\ todo = << >>
  /\ bpc = "new"
  /\ hidx = 1
  /\ log = << >>
  /\ error = << >>
  /\ artifact = << >>
  /\ IdleW
  /\ IdleX

\* one entry of the log: a hook visited by call_hook, or a part of a step
\* that Builder runs itself
LogEntry(step, what, hook, outcome) ==
  [ step |-> step, what |-> what, hook |-> hook, outcome |-> outcome,
    run_setuptools |-> run_setuptools ]

\* the step after the current one
Advance ==
  /\ todo' = Tail(todo)
  /\ hidx' = 1
  /\ bpc' = IF Tail(todo) = << >> THEN "done" ELSE entry(Head(Tail(todo)))

\* Builder.__init__: self._hooks = list(self.get_hooks())
Construct ==
  /\ bpc = "new"
  /\ hooks' = get_hooks(target, entry_points, local_hook)
  /\ bpc' = "constructed"
  /\ UNCHANGED << fvars, wvars, xvars, no_clean_build, env_no_clean, run_setuptools,
                  entry_points, local_hook, todo, hidx, log, error, artifact >>

\* Builder.build up to the first step
StartBuild ==
  /\ bpc = "constructed"
  /\ LET plan == build_plan(should_clean(no_clean_build, env_no_clean))
     IN  /\ todo' = plan
         /\ bpc' = entry(Head(plan))
  /\ hidx' = 1
  /\ UNCHANGED << fvars, wvars, xvars, no_clean_build, env_no_clean, run_setuptools,
                  entry_points, local_hook, hooks, log, error, artifact >>

\* a further call of build on the Builder object whose build has returned
BuildAgain ==
  /\ bpc = "done"
  /\ builds < MaxBuilds
  /\ LET plan == build_plan(should_clean(no_clean_build, env_no_clean))
     IN  /\ todo' = plan
         /\ bpc' = entry(Head(plan))
  /\ hidx' = 1
  /\ log' = << >>
  /\ artifact' = << >>
  /\ UNCHANGED << fvars, wvars, xvars, no_clean_build, env_no_clean, run_setuptools,
                  entry_points, local_hook, hooks, error >>

InHooks == bpc = "hooks" /\ hidx <= Len(hooks)

HooksDone == bpc = "hooks" /\ hidx > Len(hooks)

\* one turn of the loop of call_hook for a hook that is disabled or does not
\* have the method
SkipHook ==
  /\ InHooks
  /\ LET hook == hooks[hidx]
         enabled == hook_enabled(hook, target, run_setuptools)
     IN  /\ ~enabled \/ hook_name(Head(todo)) \notin hook.methods
         /\ log' = Append(log, LogEntry(Head(todo), "hook", hidx,
                     IF ~enabled THEN "disabled" ELSE "absent"))
  /\ hidx' = hidx + 1
  /\ UNCHANGED << fvars, wvars, xvars, no_clean_build, env_no_clean, run_setuptools,
                  entry_points, local_hook, hooks, todo, bpc, error, artifact >>

\* one turn of the loop of call_hook for a hook whose method returns
InvokeHook ==
  /\ InHooks
  /\ LET hook == hooks[hidx]
         name == hook_name(Head(todo))
         pp == convert_package_paths(tree, cfg)
         ed == prepare_editable(tree, cfg, pp)
     IN  /\ hook_enabled(hook, target, run_setuptools)
         /\ name \in hook.methods
         /\ hook.kind = "EditableBuildHook" => pp.error = "none" /\ ed.error = "none"
         /\ log' = Append(log, LogEntry(Head(todo), "hook", hidx, "called"))
         /\ IF hook.kind = "EditableBuildHook" /\ name = "pdm_build_initialize"
            THEN /\ editables' = ed
                 /\ version' = editable_version(version)
                 /\ UNCHANGED << tree, build_dir, files, run_setuptools >>
            ELSE IF hook.kind = "EditableBuildHook"
            THEN LET kept == (DOMAIN files) \ EditableRemoved(DOMAIN files, pp.packages)
                     added == editables_files(editables)
                 IN  /\ build_dir' = [ ensure_build_dir(build_dir) EXCEPT
                                         !.files = @ \cup added ]
                     /\ files' = FileMapUpdate([ k \in kept |-> files[k] ],
                                   [ k \in { normalize_path(n) : n \in added } |->
                                       BuildFile(k) ])
                     /\ UNCHANGED << tree, version, editables, run_setuptools >>
            ELSE IF hook.kind = "SetuptoolsBuildHook"
            THEN /\ tree' = tree \cup { <<SETUP_PY>> }
                           \cup (IF target = "editable" THEN { <<PKG, EXT_SO>> } ELSE {})
                 /\ build_dir' = IF target = "editable" THEN build_dir
                                 ELSE [ ensure_build_dir(build_dir) EXCEPT
                                          !.files = @ \cup {EXT_SO} ]
                 /\ UNCHANGED << version, editables, files, run_setuptools >>
            ELSE IF hook.effect = "run_setuptools" /\ name = "pdm_build_initialize"
            THEN /\ run_setuptools' = TRUE
                 /\ UNCHANGED << tree, build_dir, version, editables, files >>
            ELSE IF hook.effect = "add_file" /\ name = "pdm_build_update_files"
            THEN /\ files' = FileMapUpdate(files,
                               [ k \in {HOOK_TXT} |-> RootFile(HOOK_TXT) ])
                 /\ UNCHANGED << tree, build_dir, version, editables, run_setuptools >>
            ELSE UNCHANGED << tree, build_dir, version, editables, files,
                              run_setuptools >>
  /\ hidx' = hidx + 1
  /\ UNCHANGED << fidle, target, cfg, file_items, wvars, xvars, no_clean_build,
                  env_no_clean, entry_points, local_hook, hooks, todo, bpc,
                  error, artifact >>

\* one turn of the loop of call_hook for a hook whose method raises
HookRaises ==
  /\ InHooks
  /\ LET hook == hooks[hidx]
         name == hook_name(Head(todo))
         raised == call_hook_outcome("raise") = "raised"
     IN  /\ hook_enabled(hook, target, run_setuptools)
         /\ name \in hook.methods
         /\ log' = Append(log, LogEntry(Head(todo), "hook", hidx, "raised"))
         /\ error' = IF raised THEN << [ hook |-> hidx, method |-> name ] >> ELSE error
         /\ bpc' = IF raised THEN "raised" ELSE bpc
         /\ hidx' = IF raised THEN hidx ELSE hidx + 1
  /\ UNCHANGED << fvars, wvars, xvars, no_clean_build, env_no_clean, run_setuptools,
                  entry_points, local_hook, hooks, todo, artifact >>

\* Builder.clean after its hooks: shutil.rmtree(context.build_dir)
RmTree ==
  /\ HooksDone
  /\ Head(todo) = "clean"
  /\ build_dir' = [ exists |-> FALSE, files |-> {} ]
  /\ log' = Append(log, LogEntry("clean", "body", 0, "done"))
  /\ Advance
  /\ UNCHANGED << fidle, tree, target, cfg, version, editables, files,
                  file_items, wvars, xvars, no_clean_build, env_no_clean,
                  run_setuptools, entry_points, local_hook, hooks, error,
                  artifact >>

\* SdistBuilder.initialize after its hooks: the frozen pyproject.toml
FinishInitialize ==
  /\ HooksDone
  /\ Head(todo) = "initialize"
  /\ build_dir' = IF target = "sdist"
                  THEN [ ensure_build_dir(build_dir) EXCEPT
                           !.files = @ \cup {PYPROJECT_TOML} ]
                  ELSE build_dir
  /\ log' = Append(log, LogEntry("initialize", "body", 0, "done"))
  /\ Advance
  /\ UNCHANGED << fidle, tree, target, cfg, version, editables, files,
                  file_items, wvars, xvars, no_clean_build, env_no_clean,
                  run_setuptools, entry_points, local_hook, hooks, error,
                  artifact >>

\* Builder.get_files before its hooks: files = self._collect_files(context)
CollectFilesFirst ==
  /\ bpc = "pre"
  /\ LET ie == get_include_and_exclude(tree, target, cfg)
     IN  \E ig \in GlobDicts(tree, ie.includes), eg \in GlobDicts(tree, ie.excludes) :
           LET m == merge_globs(ig, eg)
               fm == collect_files(tree, m.includes, m.excludes)
           IN  files' = IF target = "sdist" THEN fm ELSE wheel_collect_files(fm)
  /\ log' = Append(log, LogEntry("get_files", "pre", 0, "done"))
  /\ bpc' = "hooks"
  /\ hidx' = 1
  /\ UNCHANGED << fidle, tree, target, cfg, build_dir, version, editables,
                  file_items, wvars, xvars, no_clean_build, env_no_clean,
                  run_setuptools, entry_points, local_hook, hooks, todo, error,
                  artifact >>

\* Builder.get_files after its hooks, the files the subclass adds, and the
\* sorted() of Builder.build
FinishGetFiles ==
  /\ HooksDone
  /\ Head(todo) = "get_files"
  /\ LET merged == FileMapUpdate(files,
                     collect_build_files(build_dir,
                       get_include_and_exclude(tree, target, cfg).excludes))
     IN  /\ files' = merged
         /\ file_items' = SortItems(ItemsOf(merged, Sorted(DOMAIN merged))
                                    \o extra_files(tree, target, version))
  /\ build_dir' = write_dist_info(build_dir, target, version)
  /\ log' = Append(log, LogEntry("get_files", "body", 0, "done"))
  /\ Advance
  /\ UNCHANGED << fidle, tree, target, cfg, version, editables, wvars, xvars,
                  no_clean_build, env_no_clean, run_setuptools, entry_points,
                  local_hook, hooks, error, artifact >>

\* build_artifact(context, files)
BuildArtifact ==
  /\ bpc = "body"
  /\ Head(todo) = "build_artifact"
  /\ artifact' = << [ target |-> target, files |-> file_items ] >>
  /\ builds' = builds + 1
  /\ log' = Append(log, LogEntry("build_artifact", "body", 0, "done"))
  /\ Advance
  /\ UNCHANGED << fvars, wvars, mvars, svars, evars, tvars, rvars, no_clean_build, env_no_clean, run_setuptools,
                  entry_points, local_hook, hooks, error >>

\* Builder.finalize after its hooks: build returns the artifact
FinishBuild ==
  /\ HooksDone
  /\ Head(todo) = "finalize"
  /\ log' = Append(log, LogEntry("finalize", "body", 0, "done"))
  /\ Advance
  /\ UNCHANGED << fvars, wvars, xvars, no_clean_build, env_no_clean, run_setuptools,
                  entry_points, local_hook, hooks, error, artifact >>

NextB ==
  \/ Construct
  \/ StartBuild
  \/ BuildAgain
  \/ SkipHook
  \/ InvokeHook
  \/ HookRaises
  \/ RmTree
  \/ FinishInitialize
  \/ CollectFilesFirst
  \/ FinishGetFiles
  \/ BuildArtifact
  \/ FinishBuild

SpecBuild == InitB /\ [][NextB]_vars

(***************************************************************************)
(* WheelBuilder.build_artifact.                                            *)
(***************************************************************************)
\* the sorted lists of files of at most MaxFiles paths
WheelFileLists(ver) ==
  { Sorted(S) : S \in UpTo(WheelPathPool(ver), MaxFiles) }

InitW ==
  /\ tree = CoreFiles
  /\ target \in {"wheel", "editable"}
  /\ cfg = DefaultConfig
  /\ build_dir = [ exists |-> TRUE, files |-> {GITIGNORE} ]
  /\ version = IF target = "editable" THEN editable_version(PROJECT_VERSION)
               ELSE PROJECT_VERSION
  /\ editables = NoEditables
  /\ fpc = "start"
  /\ include_globs = EmptyMap
  /\ excludes_globs = EmptyMap
  /\ include_paths = << >>
  /\ exclude_paths = << >>
  /\ files = EmptyMap
  /\ file_items = << >>
  /\ IdleB
  /\ IdleX
  /\ wfiles \in WheelFileLists(version)
  /\ widx = 1
  /\ zf = << >>
  /\ records = << >>
  /\ wpc = "start"
  /\ dist \in {"absent", "old"}

\* tempfile.mkstemp and the opening of the ZipFile on it
OpenArchive ==
  /\ wpc = "start"
  /\ wpc' = "writing"
  /\ UNCHANGED << fvars, bvars, xvars, wfiles, widx, zf, records, dist >>

\* one turn of the loop over files:
\* records.append(self._add_file_to_zip(zf, rel_path, full_path))
AddFileToZip ==
  /\ wpc = "writing"
  /\ widx <= Len(wfiles)
  /\ \E st_mode \in FileModes, data \in Contents :
       LET r == add_file_to_zip(wfiles[widx], st_mode, data)
       IN  /\ zf' = Append(zf, r.entry)
           /\ records' = Append(records, r.record)
  /\ widx' = widx + 1
  /\ UNCHANGED << fvars, bvars, xvars, wfiles, wpc, dist >>

\* self._write_record(zf, records), and the closing of the archive; the
\* ZipInfo of RECORD is given no external_attr, and zipfile stores 0o600 << 16
\* for a ZipInfo without one
WriteRecord ==
  /\ wpc = "writing"
  /\ widx > Len(wfiles)
  /\ LET filename == dist_info_name(version) \o <<"/">> \o RECORD_NAME
     IN  zf' = Append(zf, [ filename |-> filename,
                            date_time |-> ZIPINFO_DATE_TIME,
                            external_attr |-> << 384, 0 >>,
                            data |-> record_rows(records, filename) ])
  /\ wpc' = "closed"
  /\ UNCHANGED << fvars, bvars, xvars, wfiles, widx, records, dist >>

\* if target.exists(): target.unlink()
UnlinkTarget ==
  /\ wpc = "closed"
  /\ dist' = "absent"
  /\ wpc' = "unlinked"
  /\ UNCHANGED << fvars, bvars, xvars, wfiles, widx, zf, records >>

\* shutil.move(temp_name, target): os.rename when the temporary directory and
\* the dist directory are on one filesystem, else a copy to the target that
\* CopyToDist completes
MoveToDist ==
  /\ wpc = "unlinked"
  /\ \E same_filesystem \in BOOLEAN :
       IF same_filesystem
       THEN dist' = "new" /\ wpc' = "moved"
       ELSE dist' = "partial" /\ wpc' = "copying"
  /\ UNCHANGED << fvars, bvars, xvars, wfiles, widx, zf, records >>

\* the end of the copy of shutil.move, and the removal of the temporary file
CopyToDist ==
  /\ wpc = "copying"
  /\ dist' = "new"
  /\ wpc' = "moved"
  /\ UNCHANGED << fvars, bvars, xvars, wfiles, widx, zf, records >>

\* build_artifact stops before its end: a file cannot be read, the disk is
\* full, or the process is killed
WheelInterrupted ==
  /\ wpc \in {"start", "writing", "closed", "unlinked", "copying"}
  /\ wpc' = "interrupted"
  /\ UNCHANGED << fvars, bvars, xvars, wfiles, widx, zf, records, dist >>

NextW ==
  \/ OpenArchive
  \/ AddFileToZip
  \/ WriteRecord
  \/ UnlinkTarget
  \/ MoveToDist
  \/ CopyToDist
  \/ WheelInterrupted

SpecWheel == InitW /\ [][NextW]_vars

(***************************************************************************)
(* FileMap (structures.py).                                                *)
(***************************************************************************)
\* FileMap.__setitem__ that stores the key as it is given
filemap_setitem_raw(data, key, value) ==
  [ data |-> FileMapUpdate(data, [ k \in { key } |-> value ]),
    error |-> "none" ]

\* FileMap.__setitem__(key, value)
filemap_setitem(data, key, value) ==
  [ data |-> FileMapUpdate(data, [ k \in { normalize_path(key) } |-> value ]),
    error |-> "none" ]

\* FileMap.__getitem__(key)
filemap_getitem(data, key) ==
  IF normalize_path(key) \in DOMAIN data
  THEN [ error |-> "none", result |-> << data[normalize_path(key)] >> ]
  ELSE [ error |-> "KeyError", result |-> << >> ]

\* FileMap.__delitem__(key): the key is looked up as it is given
filemap_delitem(data, key) ==
  IF key \in DOMAIN data
  THEN [ data |-> [ k \in (DOMAIN data) \ {key} |-> data[k] ], error |-> "none" ]
  ELSE [ data |-> data, error |-> "KeyError" ]

A_B == <<"a","/","b">>
C_KEY == <<"c">>

\* the keys handed to a FileMap: spellings of a/b and of c
FileMapKeys ==
  { A_B, <<"a","/","/","b">>, <<".","/","a","/","b">>, <<"a","/",".","/","b">>,
    <<"a","/","b","/">>, <<"a","/","c","/",".",".","/","b">>,
    C_KEY, <<".","/","c">> }

\* the values stored in a FileMap
FileMapValues == { RootFile(A_B), BuildFile(A_B) }

InitM ==
  /\ tree = CoreFiles
  /\ target = "wheel"
  /\ cfg = DefaultConfig
  /\ build_dir = [ exists |-> FALSE, files |-> {} ]
  /\ version = PROJECT_VERSION
  /\ editables = NoEditables
  /\ fpc = "start"
  /\ include_globs = EmptyMap
  /\ excludes_globs = EmptyMap
  /\ include_paths = << >>
  /\ exclude_paths = << >>
  /\ files = EmptyMap
  /\ file_items = << >>
  /\ IdleB
  /\ IdleW
  /\ IdleM
  /\ IdleS
  /\ builds = 0
  /\ IdleE
  /\ IdleT
  /\ IdleR

\* files[key] = value
SetItem ==
  /\ \E key \in FileMapKeys, value \in FileMapValues :
       LET r == filemap_setitem(fm_data, key, value)
       IN  /\ fm_data' = r.data
           /\ fm_last' = [ op |-> "set", key |-> key, value |-> << value >>,
                           error |-> r.error, before |-> fm_data ]
  /\ UNCHANGED not_mvars

\* files[key]
GetItem ==
  /\ \E key \in FileMapKeys :
       LET r == filemap_getitem(fm_data, key)
       IN  fm_last' = [ op |-> "get", key |-> key, value |-> r.result,
                        error |-> r.error, before |-> fm_data ]
  /\ UNCHANGED << not_mvars, fm_data >>

\* del files[key]
DelItem ==
  /\ \E key \in FileMapKeys :
       LET r == filemap_delitem(fm_data, key)
       IN  /\ fm_data' = r.data
           /\ fm_last' = [ op |-> "del", key |-> key, value |-> << >>,
                           error |-> r.error, before |-> fm_data ]
  /\ UNCHANGED not_mvars

NextM ==
  \/ SetItem
  \/ GetItem
  \/ DelItem

SpecFileMap == InitM /\ [][NextM]_vars

(***************************************************************************)
(* The sdist build (sdist.py, hooks/version/__init__.py).                  *)
(***************************************************************************)
\* the version that resolve_version_from_file reads
FILE_VERSION == <<"1",".","2",".","3">>

\* the root pyproject.toml files of the model: a static version, a version
\* from a file, no version at all, 'version' missing from dynamic, and a
\* version source that is not supported
ProjectTables ==
  { [ version |-> << PROJECT_VERSION >>, dynamic |-> {}, version_config |-> << >> ],
    [ version |-> << >>, dynamic |-> {"version"}, version_config |-> << "file" >> ],
    [ version |-> << >>, dynamic |-> {"version"}, version_config |-> << >> ],
    [ version |-> << >>, dynamic |-> {}, version_config |-> << "file" >> ],
    [ version |-> << >>, dynamic |-> {"version", "readme"}, version_config |-> << "bogus" >> ] }

\* DynamicVersionBuildHook.pdm_build_initialize on the metadata of project
\* table pp
dynamic_version(pp) ==
  IF pp.version_config = << >> \/ pp.version # << >>
  THEN [ error |-> "none",
         metadata |-> [ version |-> IF pp.version = << >>
                                    THEN << <<"0",".","0",".","0">> >>
                                    ELSE pp.version,
                        dynamic |-> pp.dynamic \ {"version"} ] ]
  ELSE IF "version" \notin pp.dynamic
  THEN [ error |-> "ValidationError",
         metadata |-> [ version |-> pp.version, dynamic |-> pp.dynamic ] ]
  ELSE IF pp.version_config[1] \notin {"file", "scm", "call"}
  THEN [ error |-> "none",
         metadata |-> [ version |-> pp.version, dynamic |-> pp.dynamic ] ]
  ELSE [ error |-> "none",
         metadata |-> [ version |-> << FILE_VERSION >>,
                        dynamic |-> pp.dynamic \ {"version"} ] ]

\* the f"{name}-{version}" of SdistBuilder.build_artifact
sdist_dist_info(ver) == to_filename(PROJECT_NAME) \o <<"-">> \o to_filename(ver)

\* the modes of the files an sdist is built from
SdistFileModes == { 33188, 33277 }

\* the owner of the files of the project
FILE_UID == 1000
\* the modification time of the files of the project
FILE_MTIME == 7

\* tar.gettarinfo(path, arcname)
gettarinfo(path, arcname, st_mode) ==
  [ name |-> arcname, path |-> << path >>, mode |-> st_mode % 4096,
    uid |-> FILE_UID, gid |-> FILE_UID, uname |-> "user", gname |-> "user",
    mtime |-> FILE_MTIME ]

\* tarfile.TarInfo(name)
TarInfo(name) ==
  [ name |-> name, path |-> << >>, mode |-> 420,
    uid |-> 0, gid |-> 0, uname |-> "", gname |-> "", mtime |-> 0 ]

\* clean_tarinfo(tar_info)
clean_tarinfo(tar_info, epoch) ==
  [ tar_info EXCEPT !.uid = 0, !.gid = 0, !.uname = "", !.gname = "",
                    !.mode = normalize_file_permissions(tar_info.mode),
                    !.mtime = IF epoch # << >> THEN epoch[1] ELSE @ ]

PKG_INFO == <<"P","K","G","-","I","N","F","O">>

InitS ==
  /\ tree \in { CoreFiles, CoreFiles \cup { <<PKG, INIT_PY>> } }
  /\ target = "sdist"
  /\ cfg = DefaultConfig
  /\ build_dir = [ exists |-> FALSE, files |-> {} ]
  /\ version = PROJECT_VERSION
  /\ editables = NoEditables
  /\ fpc = "start"
  /\ include_globs = EmptyMap
  /\ excludes_globs = EmptyMap
  /\ include_paths = << >>
  /\ exclude_paths = << >>
  /\ files = EmptyMap
  /\ file_items = << >>
  /\ IdleB
  /\ IdleW
  /\ IdleM
  /\ builds = 0
  /\ IdleE
  /\ IdleT
  /\ IdleR
  /\ pyproject \in ProjectTables
  /\ metadata = [ version |-> pyproject.version, dynamic |-> pyproject.dynamic ]
  /\ frozen = << >>
  /\ source_date_epoch \in { << >>, << 1 >> }
  /\ sfiles = << >>
  /\ sidx = 1
  /\ tar = << >>
  /\ spc = "start"
  /\ tarball \in {"absent", "old"}

\* SdistBuilder.initialize: the pdm_build_initialize hooks, then the write
\* of the configuration to build_dir/pyproject.toml
SdistInitialize ==
  /\ spc = "start"
  /\ LET r == dynamic_version(pyproject)
     IN  IF r.error # "none"
         THEN /\ spc' = "raised"
              /\ UNCHANGED << metadata, frozen, build_dir >>
         ELSE /\ spc' = "initialized"
              /\ metadata' = r.metadata
              /\ frozen' = << r.metadata >>
              /\ build_dir' = [ ensure_build_dir(build_dir) EXCEPT
                                  !.files = @ \cup {PYPROJECT_TOML} ]
  /\ UNCHANGED << tree, target, cfg, version, editables, fpc, include_globs,
                  excludes_globs, include_paths, exclude_paths, files, file_items >>
  /\ UNCHANGED << pyproject, source_date_epoch, sfiles, sidx, tar, tarball >>
  /\ UNCHANGED not_svars

\* files = sorted(self.get_files(context)) in Builder.build
SdistGetFiles ==
  /\ spc = "initialized"
  /\ LET ie == get_include_and_exclude(tree, target, cfg)
     IN  \E ig \in GlobDicts(tree, ie.includes), eg \in GlobDicts(tree, ie.excludes) :
           LET m == merge_globs(ig, eg)
               fm == FileMapUpdate(collect_files(tree, m.includes, m.excludes),
                       collect_build_files(build_dir, ie.excludes))
           IN  sfiles' = SortItems(ItemsOf(fm, Sorted(DOMAIN fm))
                                   \o extra_files(tree, target, version))
  /\ spc' = "collected"
  /\ UNCHANGED fvars
  /\ UNCHANGED << pyproject, metadata, frozen, source_date_epoch, sidx, tar, tarball >>
  /\ UNCHANGED not_svars

\* the head of SdistBuilder.build_artifact: metadata["version"] and
\* tarfile.open(target, mode="w:gz"), which creates or truncates the target
OpenTar ==
  /\ spc = "collected"
  /\ IF metadata.version = << >>
     THEN spc' = "raised" /\ UNCHANGED tarball
     ELSE spc' = "open" /\ tarball' = "partial"
  /\ UNCHANGED fvars
  /\ UNCHANGED << pyproject, metadata, frozen, source_date_epoch, sfiles, sidx, tar >>
  /\ UNCHANGED not_svars

\* one turn of the loop over files in SdistBuilder.build_artifact
AddTarFile ==
  /\ spc = "open"
  /\ sidx <= Len(sfiles)
  /\ \E st_mode \in SdistFileModes :
       LET relpath == sfiles[sidx][1]
           path == sfiles[sidx][2]
           tar_info == gettarinfo(path,
                         sdist_dist_info(metadata.version[1]) \o <<"/">> \o relpath,
                         st_mode)
       IN  tar' = Append(tar, clean_tarinfo(tar_info, source_date_epoch))
  /\ sidx' = sidx + 1
  /\ UNCHANGED fvars
  /\ UNCHANGED << pyproject, metadata, frozen, source_date_epoch, sfiles, spc, tarball >>
  /\ UNCHANGED not_svars

\* the PKG-INFO member and the closing of the archive
AddPkgInfo ==
  /\ spc = "open"
  /\ sidx > Len(sfiles)
  /\ tar' = Append(tar,
              clean_tarinfo(TarInfo(sdist_dist_info(metadata.version[1])
                                    \o <<"/">> \o PKG_INFO),
                            source_date_epoch))
  /\ spc' = "closed"
  /\ tarball' = "new"
  /\ UNCHANGED fvars
  /\ UNCHANGED << pyproject, metadata, frozen, source_date_epoch, sfiles, sidx >>
  /\ UNCHANGED not_svars

\* the build stops while the archive is open: a file cannot be read, the
\* disk is full, or the process is killed
SdistInterrupted ==
  /\ spc = "open"
  /\ spc' = "interrupted"
  /\ UNCHANGED fvars
  /\ UNCHANGED << pyproject, metadata, frozen, source_date_epoch, sfiles, sidx,
                  tar, tarball >>
  /\ UNCHANGED not_svars

NextS ==
  \/ SdistInitialize
  \/ SdistGetFiles
  \/ OpenTar
  \/ AddTarFile
  \/ AddPkgInfo
  \/ SdistInterrupted

SpecSdist == InitS /\ [][NextS]_vars

(***************************************************************************)
(* The editable build (editable.py, _vendor/editables/__init__.py).        *)
(***************************************************************************)
\* context.root.as_posix()
PROJECT_DIR == <<"/","p","r","o","j">>

\* EditableProject.make_absolute(path): (project_dir / path).resolve()
make_absolute(path) ==
  IF Parts(normpath(path)) = << >> THEN PROJECT_DIR
  ELSE PROJECT_DIR \o <<"/">> \o normpath(path)

\* EditableProject.map that takes any name
editables_map_any_name(t, redirections, name, map_target) ==
  LET at == Parts(normpath(map_target))
      abs_target == IF isdir(t, at) THEN at \o <<INIT_PY>> ELSE at
  IN  IF isfile(t, abs_target)
      THEN [ error |-> "none",
             redirections |->
               FileMapUpdate(redirections,
                 [ n \in {name} |-> make_absolute(PathStr(abs_target)) ]) ]
      ELSE [ error |-> "EditableException", redirections |-> redirections ]

\* EditableProject.map(name, target) on the redirections of the project
editables_map(t, redirections, name, map_target) ==
  IF Contains(name, ".")
  THEN [ error |-> "EditableException", redirections |-> redirections ]
  ELSE LET at == Parts(normpath(map_target))
           abs_target == IF isdir(t, at) THEN at \o <<INIT_PY>> ELSE at
       IN  IF isfile(t, abs_target)
           THEN [ error |-> "none",
                  redirections |->
                    FileMapUpdate(redirections,
                      [ n \in {name} |-> make_absolute(PathStr(abs_target)) ]) ]
           ELSE [ error |-> "EditableException", redirections |-> redirections ]

\* EditableProject.dependencies()
editables_dependencies(ed) ==
  IF ed.redirections # {} THEN << "editables" >> ELSE << >>

IMPORT_BOOTSTRAP ==
  <<"i","m","p","o","r","t"," ">> \o SubSeq(BOOTSTRAP_FILE, 1, Len(BOOTSTRAP_FILE) - 3)

\* EditableProject.pth_file(), by lines
editables_pth_file(ed) ==
  (IF ed.redirections # {} THEN << IMPORT_BOOTSTRAP >> ELSE << >>)
  \o [ i \in 1..Cardinality(ed.path_entries) |->
         make_absolute(CHOOSE e \in ed.path_entries : TRUE) ]

A_B_PY == <<"a",".","b",".","p","y">>
PKG_DATA == <<"p","k","g",".","d","a","t","a">>

\* the files an editable project is made of
EditableFiles ==
  { <<PKG, INIT_PY>>, <<PKG, DATA, INIT_PY>>, <<MOD_PY>>, <<A_B_PY>>, <<PKG, Y_JSON>> }

PKGX == <<"p","k","g","x">>
DATA_OUT_JSON == <<"d","a","t","a","_","o","u","t",".","j","s","o","n">>

\* the project trees of the editable builds: each has the data file
\* pkgx/y.json in a directory that is no package and data_out.json
EditableTrees ==
  { { <<PYPROJECT_TOML>>, <<PKGX, Y_JSON>>, <<DATA_OUT_JSON>> } \cup O :
      O \in SUBSET EditableFiles }

\* the names and targets EditableProject.map is called with
MapNames == { PKG, PKG_DATA, <<"m","o","d">>, <<"a",".","b">> }
MapTargets == { PKG, JoinSlash(<<PKG, DATA>>), MOD_PY }

InitE ==
  /\ tree \in EditableTrees
  /\ target = "editable"
  /\ cfg \in [ includes : { {}, {PKG}, {PKG, PKGX, DATA_OUT_JSON} }, excludes : { {} },
               source_includes : { {} },
               editable_backend : {"path", "editables"} ]
  /\ build_dir = [ exists |-> FALSE, files |-> {} ]
  /\ version = PROJECT_VERSION
  /\ editables = NoEditables
  /\ fpc = "start"
  /\ include_globs = EmptyMap
  /\ excludes_globs = EmptyMap
  /\ include_paths = << >>
  /\ exclude_paths = << >>
  /\ files = EmptyMap
  /\ file_items = << >>
  /\ IdleB
  /\ IdleW
  /\ IdleM
  /\ IdleS
  /\ builds = 0
  /\ requires_dist = << >>
  /\ warnings = << >>
  /\ pth = << >>
  /\ ep_redirections = EmptyMap
  /\ ep_last = [ op |-> "new" ]
  /\ epc = "start"
  /\ IdleT
  /\ IdleR

\* EditableBuildHook.pdm_build_initialize
EditableInitialize ==
  /\ epc = "start"
  /\ LET pp == convert_package_paths(tree, cfg)
         ed == prepare_editable(tree, cfg, pp)
     IN  IF pp.error # "none" \/ ed.error # "none"
         THEN /\ epc' = "failed"
              /\ UNCHANGED << editables, requires_dist, warnings, version >>
         ELSE /\ epc' = "initialized"
              /\ editables' = ed
              /\ requires_dist' = requires_dist \o editables_dependencies(ed)
              /\ warnings' = IF ed.warned THEN Append(warnings, "PDMWarning")
                             ELSE warnings
              /\ version' = editable_version(version)
  /\ UNCHANGED << tree, target, cfg, build_dir, fpc, include_globs, excludes_globs,
                  include_paths, exclude_paths, files, file_items >>
  /\ UNCHANGED << pth, ep_redirections, ep_last >>
  /\ UNCHANGED not_evars

\* Builder.get_files of the editable build: _collect_files, then
\* EditableBuildHook.pdm_build_update_files
EditableUpdateFiles ==
  /\ epc = "initialized"
  /\ LET ie == get_include_and_exclude(tree, target, cfg)
         pp == convert_package_paths(tree, cfg)
         added == editables_files(editables)
     IN  \E ig \in GlobDicts(tree, ie.includes), eg \in GlobDicts(tree, ie.excludes) :
           LET m == merge_globs(ig, eg)
               fm == wheel_collect_files(collect_files(tree, m.includes, m.excludes))
               kept == (DOMAIN fm) \ EditableRemoved(DOMAIN fm, pp.packages)
           IN  files' = FileMapUpdate([ k \in kept |-> fm[k] ],
                          [ k \in { normalize_path(n) : n \in added } |-> BuildFile(k) ])
  /\ build_dir' = [ ensure_build_dir(build_dir) EXCEPT
                      !.files = @ \cup editables_files(editables) ]
  /\ pth' = editables_pth_file(editables)
  /\ epc' = "updated"
  /\ UNCHANGED << tree, target, cfg, version, editables, fpc, include_globs,
                  excludes_globs, include_paths, exclude_paths, file_items >>
  /\ UNCHANGED << requires_dist, warnings, ep_redirections, ep_last >>
  /\ UNCHANGED not_evars

\* project.map(name, target) on an EditableProject of the project directory
MapName ==
  /\ \E name \in MapNames, map_target \in MapTargets :
       LET r == editables_map(tree, ep_redirections, name, map_target)
       IN  /\ ep_redirections' = r.redirections
           /\ ep_last' = [ op |-> "map", name |-> name, target |-> map_target,
                           error |-> r.error, before |-> ep_redirections ]
  /\ UNCHANGED fvars
  /\ UNCHANGED << requires_dist, warnings, pth, epc >>
  /\ UNCHANGED not_evars

NextE ==
  \/ EditableInitialize
  \/ EditableUpdateFiles
  \/ MapName

SpecEditable == InitE /\ [][NextE]_vars

(***************************************************************************)
(* The compatibility tag of a wheel (wheel.py).                            *)
(***************************************************************************)
CP311 == <<"c","p","3","1","1">>
CP27 == <<"c","p","2","7">>
CP32 == <<"c","p","3","2">>
PY3 == <<"p","y","3">>
ABI3 == <<"a","b","i","3">>
NONE_ABI == <<"n","o","n","e">>
ANY == <<"a","n","y">>
LINUX == <<"l","i","n","u","x","_","x","8","6","_","6","4">>
LINUX_NAME == <<"L","i","n","u","x","-","x","8","6",".","6","4">>
WIN32 == <<"w","i","n","3","2">>

\* tags.sys_tags() of the running interpreter, the most specific tag first
sys_tags ==
  << << CP311, CP311, LINUX >>, << CP311, ABI3, LINUX >>, << CP311, NONE_ABI, LINUX >>,
     << CP32, ABI3, LINUX >>, << PY3, NONE_ABI, LINUX >>, << CP311, NONE_ABI, ANY >>,
     << PY3, NONE_ABI, ANY >> >>

PY2_PY3 == <<"p","y","2",".","p","y","3">>

\* a < b for release versions (major, minor)
VersionLess(a, b) == a[1] < b[1] \/ (a[1] = b[1] /\ a[2] < b[2])

\* Specifier.contains for one clause of a specifier set
specifier_contains(clause, v) ==
  IF clause.op = ">=" THEN ~VersionLess(v, clause.version)
  ELSE IF clause.op = "<" THEN VersionLess(v, clause.version)
  ELSE IF clause.op = "!=" THEN v # clause.version
  ELSE v = clause.version

\* SpecifierSet(requires_python).contains(v): every clause admits v; the
\* set of metadata.get("requires-python", "") without the key has no clause
specifier_set_contains(requires_python, v) ==
  \A i \in 1..Len(requires_python) : specifier_contains(requires_python[i], v)

\* _get_tag as the legacy builder computes it: a marker makes the ABI
\* abi3 and is itself the interpreter segment of a wheel that is not pure
get_tag_abi3(settings, purelib, requires_python) ==
  LET python_tag == settings.python_tag
      py_limited_api == settings.py_limited_api
      plat_name == settings.plat_name
      sys_tag == sys_tags[1]
      marked == py_limited_api # << >> /\ ~purelib
      platform == IF plat_name # << >> THEN plat_name[1]
                  ELSE IF purelib THEN ANY ELSE sys_tag[3]
      abi == IF marked THEN ABI3 ELSE IF purelib THEN NONE_ABI ELSE sys_tag[2]
      impl == IF marked THEN py_limited_api[1]
              ELSE IF python_tag # << >> THEN python_tag[1]
              ELSE IF purelib THEN PY3 ELSE sys_tag[1]
  IN  << impl, abi,
         ReplaceChar(ReplaceChar(lower(platform), "-", "_"), ".", "_") >>

\* WheelBuilder._get_platform_tags() for the settings, and _get_tag():
\* the (impl, abi, platform) of the wheel
get_tag(settings, purelib, requires_python) ==
  LET python_tag == settings.python_tag
      py_limited_api == settings.py_limited_api
      plat_name == settings.plat_name
      sys_tag == sys_tags[1]
      platform == IF plat_name # << >> /\ plat_name[1] # << >> THEN plat_name[1]
                  ELSE IF purelib THEN ANY ELSE sys_tag[3]
      abi == IF py_limited_api # << >> /\ py_limited_api[1] # << >>
             THEN py_limited_api[1]
             ELSE IF purelib THEN NONE_ABI ELSE sys_tag[2]
      impl == IF python_tag # << >> /\ python_tag[1] # << >> THEN python_tag[1]
              ELSE IF purelib
                   THEN IF specifier_set_contains(requires_python, << 2, 7 >>)
                        THEN PY2_PY3 ELSE PY3
                   ELSE sys_tag[1]
  IN  << impl, abi,
         ReplaceChar(ReplaceChar(lower(platform), "-", "_"), ".", "_") >>

\* the values of --python-tag, --py-limited-api and --plat-name
TagSettings ==
  [ python_tag : { << >>, << CP27 >>, << CP311 >> },
    py_limited_api : { << >>, << CP32 >>, << ABI3 >> },
    plat_name : { << >>, << WIN32 >>, << LINUX_NAME >> },
    build_number : { << >>, << <<"1">> >>, << <<"2","b">> >>, << <<"b","1">> >> } ]

\* the values of requires-python: absent, ">=3.8", ">=2.7", ">=2.7,<3"
RequiresPython ==
  { << >>,
    << [ op |-> ">=", version |-> << 3, 8 >> ] >>,
    << [ op |-> ">=", version |-> << 2, 7 >> ] >>,
    << [ op |-> ">=", version |-> << 2, 7 >> ], [ op |-> "<", version |-> << 3, 0 >> ] >> }

CONSOLE_SCRIPTS == "console_scripts"
GUI_SCRIPTS == "gui_scripts"

\* the [project.scripts], [project.gui-scripts] and [project.entry-points]
\* tables of the model, as sets of (name, value) and of (group, name, value)
WheelMetadata ==
  [ requires_python : RequiresPython,
    scripts : { {}, { << "run", "mod:main" >> } },
    gui_scripts : { {}, { << "gui", "mod:gui" >> } },
    entrypoints : { {}, { << "pdm.build.hook", "h", "mod:Hook" >> } } ]

\* entry_points = meta.entrypoints.copy() followed by
\* entry_points.update({"console_scripts": ..., "gui_scripts": ...}) in
\* _write_dist_info: the dictionary from group name to its table
dist_info_entry_points(meta) ==
  LET groups == { e[1] : e \in meta.entrypoints } \cup { CONSOLE_SCRIPTS, GUI_SCRIPTS }
  IN  [ g \in groups |->
          IF g = CONSOLE_SCRIPTS THEN meta.scripts
          ELSE IF g = GUI_SCRIPTS THEN meta.gui_scripts
          ELSE { << e[2], e[3] >> : e \in { x \in meta.entrypoints : x[1] = g } } ]

ENTRY_POINTS_TXT == <<"e","n","t","r","y","_","p","o","i","n","t","s",".","t","x","t">>
WHEEL_NAME == <<"W","H","E","E","L">>
METADATA_NAME == <<"M","E","T","A","D","A","T","A">>

\* the files _write_dist_info has written below the dist-info directory
\* when it returns (all is FALSE when _write_wheel_file raised): `if
\* entry_points:` is the truth value of the dictionary, that is, whether it
\* has a key
dist_info_written(meta, all) ==
  (IF DOMAIN dist_info_entry_points(meta) # {} THEN { ENTRY_POINTS_TXT } ELSE {})
  \cup { WHEEL_NAME }
  \cup (IF all THEN { METADATA_NAME } ELSE {})

\* _build_tag_regex.match(build_number): digits first
build_tag_match(build_number) ==
  build_number # << >> /\ \E k \in 1..10 : Digits[k] = build_number[1]

\* WheelBuilder._get_build_number: None (<< >>) without the key, the value
\* when it matches, "ValueError" when it does not
get_build_number(settings) ==
  IF settings.build_number = << >> THEN [ error |-> FALSE, value |-> << >> ]
  ELSE IF ~build_tag_match(settings.build_number[1])
       THEN [ error |-> TRUE, value |-> << >> ]
       ELSE [ error |-> FALSE, value |-> settings.build_number ]

\* "-".join(tag)
JoinDash(tag) == tag[1] \o <<"-">> \o tag[2] \o <<"-">> \o tag[3]

\* the lines of WHEEL_FILE_FORMAT after Wheel-Version and Generator, and
\* BUILD_TAG_FORMAT appended when self.build_number is true
wheel_file_lines(purelib, tag, build_number) ==
  << << "Root-Is-Purelib", IF purelib THEN <<"t","r","u","e">> ELSE <<"f","a","l","s","e">> >>,
     << "Tag", JoinDash(tag) >> >>
  \o (IF build_number # << >> /\ build_number[1] # << >>
      THEN << << "Build", build_number[1] >> >> ELSE << >>)

\* WheelBuilder.name_version
name_version(ver) == to_filename(PROJECT_NAME) \o <<"-">> \o to_filename(ver)

\* the file name of build_artifact without the build number
wheel_file_name_no_build(ver, build_number, tag) ==
  name_version(ver) \o <<"-">> \o JoinDash(tag) \o <<".","w","h","l">>

\* the file name of build_artifact: name_version, the build number if any,
\* the tag
wheel_file_name(ver, build_number, tag) ==
  (IF build_number # << >> /\ build_number[1] # << >>
   THEN name_version(ver) \o <<"-">> \o build_number[1]
   ELSE name_version(ver))
  \o <<"-">> \o JoinDash(tag) \o <<".","w","h","l">>

InitT ==
  /\ tree = CoreFiles
  /\ target = "wheel"
  /\ cfg = DefaultConfig
  /\ build_dir = [ exists |-> FALSE, files |-> {} ]
  /\ version = PROJECT_VERSION
  /\ editables = NoEditables
  /\ fpc = "start"
  /\ include_globs = EmptyMap
  /\ excludes_globs = EmptyMap
  /\ include_paths = << >>
  /\ exclude_paths = << >>
  /\ files = EmptyMap
  /\ file_items = << >>
  /\ IdleB
  /\ IdleW
  /\ IdleM
  /\ IdleS
  /\ builds = 0
  /\ IdleE
  /\ IdleR
  /\ tag_settings \in TagSettings
  /\ is_purelib \in BOOLEAN
  /\ wheel_tag = << >>
  /\ tpc = "start"
  /\ tagged_dist = << >>
  /\ wheel_metadata \in WheelMetadata
  /\ wheel_lines = << >>
  /\ wheel_name = << >>

\* WheelBuilder._write_dist_info in get_files: entry_points.txt, then
\* _write_wheel_file with the first read of self.tag and of
\* self.build_number (a ValueError of _get_build_number leaves the WHEEL
\* file empty and ends the build), then METADATA
WriteWheelFile ==
  /\ tpc = "start"
  /\ LET tag == get_tag(tag_settings, is_purelib, wheel_metadata.requires_python)
         bn == get_build_number(tag_settings)
         written == dist_info_written(wheel_metadata, ~bn.error)
     IN  /\ wheel_tag' = << tag >>
         /\ build_dir' = [ ensure_build_dir(build_dir) EXCEPT
                             !.files = @ \cup { dist_info_name(version) \o <<"/">> \o f :
                                                f \in written } ]
         /\ wheel_lines' = IF bn.error THEN << >>
                           ELSE wheel_file_lines(is_purelib, tag, bn.value)
         /\ tpc' = IF bn.error THEN "ValueError" ELSE "metadata"
  /\ UNCHANGED << tree, target, cfg, version, editables, fpc, include_globs,
                  excludes_globs, include_paths, exclude_paths, files, file_items >>
  /\ UNCHANGED << tag_settings, is_purelib, tagged_dist, wheel_metadata, wheel_name >>
  /\ UNCHANGED << bvars, wvars, mvars, svars, cvars, evars, rvars >>

\* WheelBuilder.build_artifact up to the closing of the temporary file
WriteTaggedArchive ==
  /\ tpc = "metadata"
  /\ tpc' = "closed"
  /\ UNCHANGED << tag_settings, is_purelib, wheel_tag, tagged_dist,
                  wheel_metadata, wheel_lines, wheel_name >>
  /\ UNCHANGED not_tvars

\* the end of WheelBuilder.build_artifact: the temporary file becomes
\* dist_dir / f"{name_version}-{self.tag}.whl", name_version with the build
\* number when there is one
MoveTaggedWheel ==
  /\ tpc = "closed"
  /\ tagged_dist' = wheel_tag
  /\ wheel_name' = << wheel_file_name(version, get_build_number(tag_settings).value,
                                       wheel_tag[1]) >>
  /\ tpc' = "moved"
  /\ UNCHANGED << tag_settings, is_purelib, wheel_tag, wheel_metadata, wheel_lines >>
  /\ UNCHANGED not_tvars

NextT ==
  \/ WriteWheelFile
  \/ WriteTaggedArchive
  \/ MoveTaggedWheel

SpecTag == InitT /\ [][NextT]_vars

(***************************************************************************)
(* Properties of include / exclude resolution and of the file set,         *)
(* checked under SpecFiles.                                                *)
(***************************************************************************)
Range(seq) == { seq[i] : i \in DOMAIN seq }

\* the archive-relative paths of sorted(get_files(context))
ItemKeys == { file_items[i][1] : i \in DOMAIN file_items }

\* _collect_files has run
Collected == fpc \in {"collected", "updated", "merged", "done"}

\* the weight of a pattern as the documentation of _merge_globs states it:
\* the number of segments, and minus the wildcard count, "**" counting 2
\* and any other wildcard segment 1
StatedWeight(pattern) ==
  LET segs == Parts(pattern)
      double == { i \in DOMAIN segs : segs[i] = DSTAR }
      single == { i \in DOMAIN segs : segs[i] # DSTAR /\ has_magic(segs[i]) }
  IN  << Len(segs), 0 - (2 * Cardinality(double) + Cardinality(single)) >>

\* a > b, lexicographically
StrictlyHeavier(a, b) == a[1] > b[1] \/ (a[1] = b[1] /\ a[2] > b[2])

DATA_Y_PATH == JoinSlash(<<PKG, DATA, Y_JSON>>)
INNER_X_PATH == JoinSlash(<<PKG, DATA, INNER, X_JSON>>)
INNER_PATH == JoinSlash(<<PKG, DATA, INNER>>)
PKG_INIT_PATH == JoinSlash(<<PKG, INIT_PY>>)
PKG_PYC_PATH == JoinSlash(<<PKG, M_PYC>>)
TESTS_Y_PATH == JoinSlash(<<TESTS, Y_JSON>>)
TESTS_PYC_PATH == JoinSlash(<<TESTS, T_PYC>>)

\* C3: for every path resolved by both an include and an exclude pattern the
\* include wins iff its pattern is strictly heavier; the winner keeps the
\* path and the loser's list drops it; with include **/*.json and exclude
\* pkg/data/*.json, pkg/data/inner/x.json is in and pkg/data/y.json is out.
C3_MergePriority ==
  Collected =>
    /\ \A path \in (DOMAIN include_globs) \cap (DOMAIN excludes_globs) :
         LET include_wins == StrictlyHeavier(StatedWeight(include_globs[path]),
                                             StatedWeight(excludes_globs[path]))
         IN  /\ (path \in Range(include_paths)) <=> include_wins
             /\ (path \in Range(exclude_paths)) <=> ~include_wins
    /\ (cfg.includes = {PAT_ANY_JSON} /\ cfg.excludes = {PAT_DATA_JSON}) =>
         /\ INNER_X_PATH \in Range(include_paths)
         /\ DATA_Y_PATH \notin Range(include_paths)
         /\ DATA_Y_PATH \in Range(exclude_paths)
         /\ (fpc = "collected" =>
               INNER_X_PATH \in DOMAIN files /\ DATA_Y_PATH \notin DOMAIN files)

\* a state in which one path is won by the include and another by the exclude
C3_Witness ==
  /\ fpc = "collected"
  /\ \E p, q \in (DOMAIN include_globs) \cap (DOMAIN excludes_globs) :
       /\ p \in Range(include_paths) /\ p \notin Range(exclude_paths)
       /\ q \in Range(exclude_paths) /\ q \notin Range(include_paths)

\* key is the same path as, or lies beneath, a resolved exclude path
UnderExclude(key) ==
  \E e \in Range(exclude_paths) : IsPrefix(Parts(e), Parts(key))

\* C4 as stated: no key of the collected FileMap is the same path as or a
\* descendant of a resolved exclude path.
C4_Original ==
  fpc = "collected" => \A key \in DOMAIN files : ~UnderExclude(key)

\* C4 amended: a key of the collected FileMap that is the same path as or a
\* descendant of a resolved exclude path is a concrete match of an include
\* pattern (a member of the include list) and not itself an exclude path;
\* every file found by walking an included directory is outside the excludes.
C4_WalkedFilesNotExcluded ==
  fpc = "collected" =>
    \A key \in DOMAIN files :
       UnderExclude(key) =>
         /\ key \in Range(include_paths)
         /\ key \notin Range(exclude_paths)

\* a directly matched file stays below an excluded directory while a walked
\* file below the same directory is dropped
C4_Witness ==
  /\ fpc = "collected"
  /\ PAT_DATA \in Range(exclude_paths)
  /\ INNER_PATH \in Range(include_paths)
  /\ DATA_Y_PATH \in DOMAIN files
  /\ INNER_X_PATH \notin DOMAIN files

\* C5: no archive path ending in .pyc is in the file set of a build.
C5_NoPyc ==
  fpc = "done" => \A key \in ItemKeys : ~EndsWith(key, <<".","p","y","c">>)

\* the source-includes paths in effect
EffectiveSourceIncludes ==
  IF cfg.source_includes = {} THEN {TESTS} ELSE cfg.source_includes

\* the files of the tree that are, or lie beneath, a source-includes path
SourceOnlyFiles ==
  { PathStr(f) : f \in { g \in tree :
      \E s \in EffectiveSourceIncludes : IsPrefix(Parts(s), g) } }

\* the .py files of the auto-discovered top-level packages
PackageFiles ==
  { PathStr(f) : f \in { g \in tree :
      /\ Len(g) > 1
      /\ isfile(tree, <<g[1], INIT_PY>>)
      /\ EndsWith(g[Len(g)], <<".","p","y">>) } }

\* a path resolved by a declared exclude pattern covers the file
CoveredByExcludeRule(path) ==
  \E e \in cfg.excludes : \E r \in GlobPaths(tree, e) :
     IsPrefix(Parts(r), Parts(path))

\* C6 as stated: with no include rule, every source-only file and the
\* manifest are in the sdist file set and absent from the wheel and editable
\* file sets; the package files are in both sdist and wheel.
C6_Original ==
  (fpc = "done" /\ cfg.includes = {}) =>
    /\ target = "sdist" =>
         (SourceOnlyFiles \cup {PYPROJECT_TOML}) \subseteq ItemKeys
    /\ target # "sdist" =>
         (SourceOnlyFiles \cup {PYPROJECT_TOML}) \cap ItemKeys = {}
    /\ target \in {"sdist", "wheel"} =>
         (PackageFiles \ SourceOnlyFiles) \subseteq ItemKeys

\* C6 amended: the sdist holds the manifest and every source-only file that
\* does not end in .pyc and that no exclude rule covers; the wheel and the
\* editable file sets hold no source-only file and no manifest; the package
\* files outside the source-includes paths that no exclude rule covers are
\* in both sdist and wheel.
C6_SdistWheelDivergence ==
  (fpc = "done" /\ cfg.includes = {}) =>
    /\ target = "sdist" =>
         /\ PYPROJECT_TOML \in ItemKeys
         /\ \A f \in SourceOnlyFiles :
              (~EndsWith(f, <<".","p","y","c">>) /\ ~CoveredByExcludeRule(f))
                => f \in ItemKeys
    /\ target # "sdist" =>
         (SourceOnlyFiles \cup {PYPROJECT_TOML}) \cap ItemKeys = {}
    /\ target \in {"sdist", "wheel"} =>
         \A f \in PackageFiles \ SourceOnlyFiles :
            ~CoveredByExcludeRule(f) => f \in ItemKeys

\* an sdist file set with the tests, the manifest and the package
C6_Witness ==
  /\ fpc = "done"
  /\ cfg.includes = {}
  /\ cfg.source_includes = {}
  /\ target = "sdist"
  /\ { TESTS_Y_PATH, PYPROJECT_TOML, PKG_INIT_PATH } \subseteq ItemKeys
  /\ TESTS_PYC_PATH \notin ItemKeys

(***************************************************************************)
(* Properties of the wheel archive, checked under SpecWheel.               *)
(***************************************************************************)
RECORD_PATH == dist_info_name(version) \o <<"/">> \o RECORD_NAME

\* the number a decimal text stands for
RECURSIVE DecimalValue(_)
DecimalValue(s) ==
  IF s = << >> THEN 0
  ELSE 10 * DecimalValue(SubSeq(s, 1, Len(s) - 1))
       + (CHOOSE d \in 0..9 : Digits[d + 1] = s[Len(s)])

\* the archive entries other than RECORD
FileEntries == { i \in 1..Len(zf) : zf[i].filename # RECORD_PATH }

\* C1: every archive entry other than RECORD has a RecordEntry with the
\* entry's path, whose digest is "sha256=" followed by the URL-safe base64
\* text, without padding, of the SHA-256 of exactly the bytes stored in the
\* entry, and whose size is the decimal number of those bytes.
C1_RecordMatchesStoredBytes ==
  \A i \in FileEntries :
    /\ i <= Len(records)
    /\ LET r == records[i]
           text == SubSeq(r.hash_digest, Len(SHA256_PREFIX) + 1, Len(r.hash_digest))
       IN  /\ r.relpath = zf[i].filename
           /\ IsPrefix(SHA256_PREFIX, r.hash_digest)
           /\ text = SelectSeq(urlsafe_b64encode(sha256(zf[i].data)),
                               LAMBDA c : c # "=")
           /\ \A k \in 1..Len(text) : text[k] \notin { "=", "+", "/" }
           /\ r.size # << >>
           /\ DecimalValue(r.size) = Len(zf[i].data)

\* two files of different contents have been written and recorded, one of
\* them of two bytes or more
C1_Witness ==
  /\ wpc = "moved"
  /\ \E i, j \in FileEntries :
       /\ i < j
       /\ Len(zf[i].data) >= 2
       /\ zf[i].data # zf[j].data
       /\ records[i].hash_digest # records[j].hash_digest

\* C2: RECORD is written after every other entry and is the last entry of
\* the archive; it holds one row per entry written before it, in write
\* order, then one row for RECORD itself with empty hash and empty size.
C2_RecordIsLast ==
  LET written == { i \in 1..Len(zf) : zf[i].filename = RECORD_PATH }
  IN  /\ wpc \in {"start", "writing"} => written = {}
      /\ wpc \in {"closed", "moved"} =>
           /\ written = { Len(zf) }
           /\ Len(zf) = Len(wfiles) + 1
           /\ \A j \in 1..Len(wfiles) : zf[j].filename = wfiles[j]
      /\ \A i \in written :
           LET rows == zf[i].data
           IN  /\ Len(rows) = i
               /\ \A j \in 1..(i - 1) :
                    /\ rows[j] = records[j]
                    /\ rows[j].relpath = zf[j].filename
               /\ rows[i] = [ relpath |-> RECORD_PATH, hash_digest |-> << >>,
                              size |-> << >> ]

\* an archive of two files and RECORD has been moved to the dist directory
C2_Witness ==
  /\ wpc = "moved"
  /\ Len(zf) >= 3
  /\ zf[Len(zf)].filename = RECORD_PATH

(***************************************************************************)
(* Properties of Builder.build and its hooks, checked under SpecBuild.     *)
(***************************************************************************)
RECURSIVE Repeat(_, _)
Repeat(x, n) == IF n = 0 THEN << >> ELSE << x >> \o Repeat(x, n - 1)

\* what a whole step leaves in the log, as << step, part >> pairs
StepTrace(step, n) ==
  IF step = "get_files"
  THEN << << step, "pre" >> >> \o Repeat(<< step, "hook" >>, n) \o << << step, "body" >> >>
  ELSE IF step = "build_artifact" THEN << << step, "body" >> >>
  ELSE Repeat(<< step, "hook" >>, n) \o << << step, "body" >> >>

\* the stated order of a build: clean unless suppressed, initialize, file
\* collection and the update_files hooks, build_artifact, finalize
StatedTrace ==
  (IF should_clean(no_clean_build, env_no_clean)
   THEN StepTrace("clean", Len(hooks)) ELSE << >>)
  \o StepTrace("initialize", Len(hooks))
  \o StepTrace("get_files", Len(hooks))
  \o StepTrace("build_artifact", Len(hooks))
  \o StepTrace("finalize", Len(hooks))

LogTrace == [ i \in 1..Len(log) |-> << log[i].step, log[i].what >> ]

\* C7: Builder.build runs clean (unless suppressed), initialize, file
\* collection followed by the pdm_build_update_files hooks, build_artifact
\* and finalize in this order: what has run is always a beginning of that
\* order, and a build that returns has run all of it, each part once.
C7_PhaseOrder ==
  /\ bpc \notin {"new", "constructed"} => IsPrefix(LogTrace, StatedTrace)
  /\ bpc = "done" => LogTrace = StatedTrace

\* a build with a clean step and three hooks or more has returned
C7_Witness ==
  /\ bpc = "done"
  /\ Len(hooks) >= 3
  /\ log[1].step = "clean"
  /\ artifact # << >>

\* the built-in hooks of a target, by class name
StatedBuiltins ==
  IF target = "sdist" THEN << "DynamicVersionBuildHook" >>
  ELSE IF target = "wheel"
  THEN << "DynamicVersionBuildHook", "SetuptoolsBuildHook" >>
  ELSE << "DynamicVersionBuildHook", "SetuptoolsBuildHook", "EditableBuildHook" >>

SameShape(hook, shape) ==
  /\ hook.methods = shape.methods
  /\ hook.predicate = shape.predicate
  /\ hook.effect = shape.effect

C9_RaisePropagates ==
  /\ \A i \in 1..Len(log) :
       log[i].outcome = "raised" =>
         /\ i = Len(log)
         /\ bpc = "raised"
         /\ error = << [ hook |-> log[i].hook,
                         method |-> hook_name(log[i].step) ] >>
         /\ log[i].step \in {"clean", "initialize", "get_files"} =>
              artifact = << >>
  /\ bpc = "raised" => Len(log) > 0 /\ log[Len(log)].outcome = "raised"
  /\ error # << >> => bpc = "raised"

\* a hook that is not the last one has raised in pdm_build_update_files
C9_Witness ==
  /\ bpc = "raised"
  /\ log[Len(log)].step = "get_files"
  /\ log[Len(log)].hook < Len(hooks)
  /\ artifact = << >>

\* whether the stated predicate of a hook holds, for the value of
\* run-setuptools at the time of the visit
StatedEnabled(hook, rs) ==
  CASE hook.predicate = "absent" -> TRUE
    [] hook.predicate = "setuptools" -> target # "sdist" /\ rs
    [] hook.predicate = "not_sdist" -> target # "sdist"
    [] hook.predicate = "disabled" -> FALSE

Invoked(e) == e.outcome \in {"called", "raised"}

\* C10: a hook whose pdm_build_hook_enabled(context) is false has no method
\* invoked for the step, and the hooks after it are still visited in order;
\* a hook without the predicate counts as enabled; SetuptoolsBuildHook is
\* never invoked for the sdist target nor when run-setuptools is false.
C10_DisabledHooksSkipped ==
  \A i \in 1..Len(log) :
    log[i].what = "hook" =>
      LET e == log[i]
          hook == hooks[e.hook]
          has_method == hook_name(e.step) \in hook.methods
      IN  /\ ~StatedEnabled(hook, e.run_setuptools) => ~Invoked(e)
          /\ (StatedEnabled(hook, e.run_setuptools) /\ has_method) => Invoked(e)
          /\ (hook.predicate = "absent" /\ has_method) => Invoked(e)
          /\ (hook.kind = "SetuptoolsBuildHook" /\ Invoked(e)) =>
               (target # "sdist" /\ e.run_setuptools)
          /\ (e.outcome = "disabled" /\ e.hook < Len(hooks)) =>
               IF i < Len(log)
               THEN /\ log[i + 1].step = e.step
                    /\ log[i + 1].what = "hook"
                    /\ log[i + 1].hook = e.hook + 1
               ELSE bpc = "hooks" /\ hidx = e.hook + 1

\* SetuptoolsBuildHook was disabled in pdm_build_update_files and a later
\* hook of the same step was called
C10_Witness ==
  \E i, j \in 1..Len(log) :
    /\ i < j
    /\ log[i].step = "get_files" /\ log[j].step = "get_files"
    /\ log[i].what = "hook" /\ log[j].what = "hook"
    /\ hooks[log[i].hook].kind = "SetuptoolsBuildHook"
    /\ log[i].outcome = "disabled"
    /\ log[j].outcome = "called"

(***************************************************************************)
(* Properties of FileMap, checked under SpecFileMap.                       *)
(***************************************************************************)
\* C11: no two keys of a FileMap normalize to the same path; an insertion
\* raises no error and leaves the value under the normalized key, and when
\* the normalized key was there already the number of entries is the same
\* as before.
C11_FileMapKeysUnique ==
  /\ \A k1, k2 \in DOMAIN fm_data :
       normpath(k1) = normpath(k2) => k1 = k2
  /\ fm_last.op = "set" =>
       LET before == fm_last.before
           had == \E k \in DOMAIN before : normpath(k) = normpath(fm_last.key)
       IN  /\ fm_last.error = "none"
           /\ \E k \in DOMAIN fm_data :
                /\ normpath(k) = normpath(fm_last.key)
                /\ << fm_data[k] >> = fm_last.value
           /\ Cardinality(DOMAIN fm_data) =
                Cardinality(DOMAIN before) + (IF had THEN 0 ELSE 1)
           /\ \A k \in DOMAIN before :
                normpath(k) # normpath(fm_last.key) =>
                  k \in DOMAIN fm_data /\ fm_data[k] = before[k]

\* an insertion under another spelling of a key that was there has replaced
\* the value, another key being left as it was
C11_Witness ==
  /\ fm_last.op = "set"
  /\ fm_last.key # A_B
  /\ A_B \in DOMAIN fm_last.before
  /\ DOMAIN fm_data = { A_B, C_KEY }
  /\ DOMAIN fm_last.before = { A_B, C_KEY }
  /\ fm_data[A_B] # fm_last.before[A_B]

(***************************************************************************)
(* Determinism of the file list, checked under SpecFiles.                  *)
(***************************************************************************)
\* the scratch directory of a build that cleaned it, after initialize
InitializedBuildDir(tg) ==
  IF tg = "sdist"
  THEN [ ensure_build_dir([ exists |-> FALSE, files |-> {} ]) EXCEPT
           !.files = @ \cup {PYPROJECT_TOML} ]
  ELSE [ exists |-> FALSE, files |-> {} ]

\* sorted(self.get_files(context)) of a wheel or sdist build that cleaned the
\* scratch directory, the comprehensions of _get_include_and_exclude_paths
\* having built the dictionaries ig and eg
SortedFilesOf(t, tg, c, ver, ig, eg) ==
  LET ie == get_include_and_exclude(t, tg, c)
      m == merge_globs(ig, eg)
      fm == collect_files(t, m.includes, m.excludes)
      walked == IF tg = "sdist" THEN fm ELSE wheel_collect_files(fm)
      merged == FileMapUpdate(walked,
                  collect_build_files(InitializedBuildDir(tg), ie.excludes))
  IN  SortItems(ItemsOf(merged, Sorted(DOMAIN merged)) \o extra_files(t, tg, ver))

\* C12: two builds of the same unchanged project from a clean scratch
\* directory put the same entries into the archive in the same order: the
\* sorted file list of a finished wheel or sdist build is the list that any
\* other run on the same tree and configuration computes.
C12_SameEntriesEveryRun ==
  (fpc = "done" /\ target \in {"sdist", "wheel"}) =>
    LET ie == get_include_and_exclude(tree, target, cfg)
    IN  \A ig \in GlobDicts(tree, ie.includes), eg \in GlobDicts(tree, ie.excludes) :
          SortedFilesOf(tree, target, cfg, version, ig, eg) = file_items

\* the list of this run is the one SortedFilesOf gives for its dictionaries
C12_ThisRun ==
  (fpc = "done" /\ target \in {"sdist", "wheel"}) =>
    SortedFilesOf(tree, target, cfg, version, include_globs, excludes_globs)
      = file_items

\* the entries of a finished build are in ascending order of their paths
C12_Ascending ==
  fpc = "done" =>
    \A i, j \in DOMAIN file_items :
      i < j => ~ItemLess(file_items[j], file_items[i])

(***************************************************************************)
(* Properties of the artifact writers, checked under SpecSdist and         *)
(* SpecWheel.                                                              *)
(***************************************************************************)
\* C13: the destination never holds an incomplete sdist under the final
\* name, and an sdist that was there is lost only to a complete new one.
C13_SdistTargetNeverPartial ==
  tarball \in {"absent", "old", "new"}

\* the same for the wheel: no incomplete file under the final name
C13_WheelTargetNeverPartial ==
  dist \in {"absent", "old", "new"}

\* a wheel that was in the dist directory is lost only to a complete new one
C13_WheelNeverLost ==
  [][dist = "old" => dist' \in {"old", "new"}]_vars

\* while the archive is being written nothing changes in the dist
\* directory: the wheel is written to a temporary file
C13_WheelWrittenAside ==
  wpc \in {"start", "writing", "closed"} => dist \in {"absent", "old"}

(***************************************************************************)
(* Reuse of a Builder object, checked under SpecBuild.                     *)
(***************************************************************************)
\* C14: once build has produced an artifact the same writer object writes
\* no second archive.
C14_SealedIsTerminal ==
  builds <= 1

\* every call of build on the object goes through collection, the writing
\* of the archive and finalize in this order
C14_EveryCallInOrder ==
  /\ bpc = "done" => LogTrace = StatedTrace /\ artifact # << >>
  /\ artifact # << >> => builds >= 1

(***************************************************************************)
(* The manifest of the sdist, checked under SpecSdist.                     *)
(***************************************************************************)
\* the project table a file holds: the regenerated copy of the build
\* directory holds the metadata as initialize left it, the file of the
\* project root holds what the author wrote
ManifestOf(path) ==
  IF path = << BuildFile(PYPROJECT_TOML) >>
  THEN frozen[1]
  ELSE [ version |-> pyproject.version, dynamic |-> pyproject.dynamic ]

\* the member that extraction leaves on disk under a name: the last one of
\* that name in the archive
Extracted(name) ==
  LET at == { i \in DOMAIN tar : tar[i].name = name }
  IN  tar[CHOOSE i \in at : \A j \in at : j <= i]

SdistManifestName ==
  sdist_dist_info(metadata.version[1]) \o <<"/">> \o PYPROJECT_TOML

\* C15: the {name}-{version}/pyproject.toml that an extractor obtains from
\* the sdist is the regenerated copy: it has the resolved version as a static
\* 'version' and no 'version' in 'dynamic'.
C15_ExtractedManifestIsRegenerated ==
  spc = "closed" =>
    LET manifest == ManifestOf(Extracted(SdistManifestName).path)
    IN  /\ manifest = frozen[1]
        /\ manifest.version # << >>
        /\ "version" \notin manifest.dynamic

\* the regenerated copy is a member of every sdist, with the version static
C15_RegeneratedIsMember ==
  spc = "closed" =>
    /\ \E i \in DOMAIN tar :
         /\ tar[i].name = SdistManifestName
         /\ tar[i].path = << BuildFile(PYPROJECT_TOML) >>
    /\ frozen[1].version # << >>
    /\ "version" \notin frozen[1].dynamic

(***************************************************************************)
(* The clean phase, checked under SpecBuild.                               *)
(***************************************************************************)
\* what the scratch build directory holds before the first build
InitialScratch == { GITIGNORE, PYPROJECT_TOML }

\* the stated condition of the clean phase
StatedClean ==
  /\ no_clean_build = << >>
  /\ \/ env_no_clean = << >>
     \/ lower(env_no_clean[1]) \in { <<"0">>, <<"f","a","l","s","e">>, <<"n","o">> }

\* whether the clean phase has run in this call of build
CleanRan == \E i \in DOMAIN log : log[i].step = "clean" /\ log[i].what = "body"

\* C16: the clean phase runs exactly when 'no-clean-build' is not a key of
\* config_settings and PDM_BUILD_NO_CLEAN is unset or is '0', 'false' or
\* 'no' in lower case; the key suppresses it whatever its value; and when it
\* is suppressed every file that was in the scratch directory before the
\* build is there after it.
C16_CleanIffStated ==
  /\ bpc \in {"body", "done"} => (CleanRan <=> StatedClean)
  /\ CleanRan => StatedClean
  /\ no_clean_build # << >> => ~CleanRan
  /\ ~StatedClean => build_dir.exists /\ InitialScratch \subseteq build_dir.files

\* a build with "no-clean-build": None has returned and the scratch
\* directory has kept its files and got new ones
C16_Witness ==
  /\ bpc = "done"
  /\ no_clean_build = << "None" >>
  /\ env_no_clean = << <<"0">> >>
  /\ ~CleanRan
  /\ InitialScratch \subseteq build_dir.files
  /\ build_dir.files # InitialScratch

\* a build with PDM_BUILD_NO_CLEAN=False has cleaned the scratch directory
C16_WitnessCleaned ==
  /\ bpc = "done"
  /\ env_no_clean # << >>
  /\ CleanRan
  /\ PYPROJECT_TOML \notin build_dir.files

(***************************************************************************)
(* Properties of the editable build, checked under SpecEditable.           *)
(***************************************************************************)
\* the packages and modules of the project, as convert_package_paths finds
\* them
Discovered ==
  LET pp == convert_package_paths(tree, cfg)
  IN  pp.packages \cup pp.py_modules

\* C17: every name of a redirection map is a top-level name: _prepare_editable
\* maps no discovered package or module with a '.' in its name, and
\* EditableProject.map raises for a dotted name and leaves the map as it was.
C17_OnlyTopLevelNames ==
  /\ \A name \in editables.redirections : ~Contains(name, ".")
  /\ \A name \in DOMAIN ep_redirections : ~Contains(name, ".")
  /\ (ep_last.op = "map" /\ Contains(ep_last.name, ".")) =>
       /\ ep_last.error = "EditableException"
       /\ ep_redirections = ep_last.before

\* a project with the dotted package pkg.data has pkg redirected, and a map
\* call for pkg.data with a valid target has been rejected after pkg was
\* mapped
C17_Witness ==
  /\ epc = "updated"
  /\ PKG_DATA \in Discovered
  /\ editables.redirections = { PKG }
  /\ ep_last.op = "map"
  /\ ep_last.name = PKG_DATA
  /\ ep_last.target = JoinSlash(<<PKG, DATA>>)
  /\ isfile(tree, <<PKG, DATA, INIT_PY>>)
  /\ ep_last.error = "EditableException"
  /\ DOMAIN ep_redirections = { PKG }

\* the resolved source root: the package-dir below the project directory
SourceRoot ==
  IF package_dir = << >> THEN PROJECT_DIR
  ELSE PROJECT_DIR \o <<"/">> \o package_dir

C19_BootstrapIffRedirections ==
  LET redirected == editables.redirections # {}
  IN  /\ epc \in {"initialized", "updated"} =>
           (\E i \in DOMAIN requires_dist : requires_dist[i] = "editables")
             <=> redirected
      /\ epc = "updated" =>
           /\ PTH_FILE \in build_dir.files
           /\ PTH_FILE \in DOMAIN files /\ files[PTH_FILE] = BuildFile(PTH_FILE)
           /\ BOOTSTRAP_FILE \in build_dir.files <=> redirected
           /\ BOOTSTRAP_FILE \in DOMAIN files <=> redirected
           /\ (\E i \in DOMAIN pth : pth[i] = IMPORT_BOOTSTRAP) <=> redirected

\* an editable build with the redirection of pkg has the three of them
C19_Witness ==
  /\ epc = "updated"
  /\ editables.redirections = { PKG }
  /\ BOOTSTRAP_FILE \in DOMAIN files
  /\ pth = << IMPORT_BOOTSTRAP >>
  /\ requires_dist = << "editables" >>

\* an editable build without a redirection has the .pth file alone
C19_WitnessFallback ==
  /\ epc = "updated"
  /\ editables.redirections = {}
  /\ PTH_FILE \in DOMAIN files
  /\ BOOTSTRAP_FILE \notin DOMAIN files
  /\ requires_dist = << >>

(***************************************************************************)
(* The tag of a wheel, checked under SpecTag.                              *)
(***************************************************************************)
\* the tags the running interpreter supports
SupportedTags == { sys_tags[i] : i \in DOMAIN sys_tags }

\* C20: a wheel that is not pure and whose tag the running interpreter does
\* not support is never written to the destination.
C20_UnsupportedTagNotWritten ==
  (tagged_dist # << >> /\ ~is_purelib) => tagged_dist[1] \in SupportedTags

\* without the three settings the tag of a wheel that is not pure is the
\* first tag of the interpreter, and the platform is normalized
C20_DefaultTagSupported ==
  (tagged_dist # << >> /\ ~is_purelib) =>
    /\ (tag_settings.python_tag = << >> /\ tag_settings.py_limited_api = << >>
        /\ tag_settings.plat_name = << >>) => tagged_dist[1] = sys_tags[1]
    /\ tag_settings.plat_name = << LINUX_NAME >> => tagged_dist[1][3] = LINUX

(***************************************************************************)
(* C21: the tag of a wheel that is not pure, with a limited-API marker.    *)
(***************************************************************************)
\* a wheel that is not pure has reached the dist directory
TaggedPlat == tagged_dist # << >> /\ ~is_purelib

\* C21 as stated: with a --py-limited-api marker, the ABI segment of the
\* tag of a wheel that is not pure is abi3 whatever the marker is, and the
\* interpreter segment is the marker
C21_Original ==
  (TaggedPlat /\ tag_settings.py_limited_api # << >>) =>
    /\ tagged_dist[1][2] = ABI3
    /\ tagged_dist[1][1] = tag_settings.py_limited_api[1]

\* C21: with a --py-limited-api marker the ABI segment of the tag of a
\* wheel that is not pure is the marker itself; the interpreter segment is
\* the --python-tag value when given and the interpreter's own otherwise,
\* marker or not; the platform segment is the normalized --plat-name value
\* when given and the interpreter's own otherwise
C21_MarkerIsAbiSegment ==
  TaggedPlat =>
    /\ tag_settings.py_limited_api # << >> =>
          tagged_dist[1][2] = tag_settings.py_limited_api[1]
    /\ tag_settings.py_limited_api = << >> => tagged_dist[1][2] = CP311
    /\ tag_settings.python_tag # << >> =>
          tagged_dist[1][1] = tag_settings.python_tag[1]
    /\ tag_settings.python_tag = << >> => tagged_dist[1][1] = CP311
    /\ tag_settings.plat_name = << WIN32 >> => tagged_dist[1][3] = WIN32
    /\ tag_settings.plat_name = << LINUX_NAME >> => tagged_dist[1][3] = LINUX
    /\ tag_settings.plat_name = << >> => tagged_dist[1][3] = LINUX

\* a wheel that is not pure, built with the marker cp32 and both overrides
C21_Witness ==
  /\ TaggedPlat
  /\ tag_settings.py_limited_api = << CP32 >>
  /\ tag_settings.python_tag = << CP27 >>
  /\ tag_settings.plat_name = << LINUX_NAME >>
  /\ tagged_dist[1] = << CP27, CP32, LINUX >>

(***************************************************************************)
(* C22: the tag of a pure wheel.                                           *)
(***************************************************************************)
\* a pure wheel has reached the dist directory
TaggedPure == tagged_dist # << >> /\ is_purelib

\* the interpreter and platform segments of the tag of a pure wheel
PureImplAndPlatform ==
  /\ tag_settings.python_tag # << >> =>
        tagged_dist[1][1] = tag_settings.python_tag[1]
  /\ tag_settings.python_tag = << >> =>
        tagged_dist[1][1] =
          IF wheel_metadata.requires_python
               \in { << >>, << [ op |-> ">=", version |-> << 2, 7 >> ] >>,
                     << [ op |-> ">=", version |-> << 2, 7 >> ],
                        [ op |-> "<", version |-> << 3, 0 >> ] >> }
          THEN PY2_PY3 ELSE PY3
  /\ tag_settings.plat_name = << WIN32 >> => tagged_dist[1][3] = WIN32
  /\ tag_settings.plat_name = << LINUX_NAME >> => tagged_dist[1][3] = LINUX
  /\ tag_settings.plat_name = << >> => tagged_dist[1][3] = ANY

\* C22: the tag of a pure wheel is impl-none-platform: the ABI segment is
\* none whatever the settings are, the interpreter segment is the
\* --python-tag value, else py2.py3 when requires-python admits 2.7, else
\* py3, and the platform segment is the normalized --plat-name value, else
\* any
C22_PureTag ==
  TaggedPure => (tagged_dist[1][2] = NONE_ABI /\ PureImplAndPlatform)

\* without a marker the ABI segment of a pure wheel is none, and the other
\* two segments are as stated with or without one
C22_PureTagWithoutMarker ==
  TaggedPure =>
    /\ tag_settings.py_limited_api = << >> => tagged_dist[1][2] = NONE_ABI
    /\ PureImplAndPlatform

\* a pure wheel built with a marker
C22_MarkedPure ==
  TaggedPure /\ tag_settings.py_limited_api = << CP32 >>
  /\ tagged_dist[1][2] = CP32

(***************************************************************************)
(* C23: the build number in the wheel's name and WHEEL file.               *)
(***************************************************************************)
DEMO_NAME_VERSION == <<"d","e","m","o","-","0",".","1",".","0">>
WHL == <<".","w","h","l">>
DIST_INFO == <<".","d","i","s","t","-","i","n","f","o">>

\* the WHEEL file has a Build line of this value
HasBuildLine(value) ==
  \E i \in 1..Len(wheel_lines) : wheel_lines[i] = << "Build", value >>

C23_WitnessWithout ==
  /\ wheel_name # << >>
  /\ tag_settings.build_number = << >>
  /\ wheel_lines # << >>

(***************************************************************************)
(* C25: entry_points.txt in the dist-info directory.                       *)
(***************************************************************************)
\* the project declares a script, a gui-script or an entry-points group
DeclaresEntryPoint ==
  wheel_metadata.scripts # {} \/ wheel_metadata.gui_scripts # {}
  \/ wheel_metadata.entrypoints # {}

EntryPointsWritten ==
  (dist_info_name(version) \o <<"/">> \o ENTRY_POINTS_TXT) \in build_dir.files

\* C25: the dist-info directory has an entry_points.txt file if and only if
\* the project declares at least one entry point
C25_EntryPointsIffDeclared ==
  tpc \in { "metadata", "closed", "moved" } =>
    (EntryPointsWritten <=> DeclaresEntryPoint)

\* a project that declares an entry point has the file
C25_DeclaredHasFile ==
  (tpc \in { "metadata", "closed", "moved" } /\ DeclaresEntryPoint)
    => EntryPointsWritten

\* the dist-info directory of a project without entry points
C25_NoneDeclared ==
  tpc = "moved" /\ ~DeclaresEntryPoint /\ EntryPointsWritten

(***************************************************************************)
(* C24: the permission bits of the archive entries.                        *)
(***************************************************************************)
\* the nine permission bits of a mode
PermBits(mode) == mode % 512

\* the st_mode values 0o000000 .. 0o000777, and those with the bits of a
\* regular file, of a directory and the set-uid bit above them
StModes == { p + h : p \in 0..511, h \in { 0, 32768, 16384, 34816 } }

\* normalize_file_permissions gives 0o755 to a mode with the owner-execute
\* bit and 0o644 to any other, keeps the bits above 0o777, and is idempotent
C24_RuleOfFunction ==
  \A m \in StModes :
    LET n == normalize_file_permissions(m)
    IN  /\ PermBits(n) = (IF (m \div 64) % 2 = 1 THEN 493 ELSE 420)
        /\ n \div 512 = m \div 512
        /\ normalize_file_permissions(n) = n

\* C24: every entry the wheel writer has written has the permission bits
\* 0o644 or 0o755 of normalize_file_permissions
C24_EveryEntryNormalized ==
  \A i \in 1..Len(zf) : PermBits(zf[i].external_attr[1]) \in { 420, 493 }

\* the entries the wheel writer copies from files have the permission bits
\* 0o644 or 0o755 and the file-type bits of the file
C24_FileEntriesNormalized ==
  \A i \in 1..Len(zf) :
    zf[i].filename # RECORD_PATH =>
      /\ PermBits(zf[i].external_attr[1]) \in { 420, 493 }
      /\ zf[i].external_attr[1] \div 512 = 64

\* every member the sdist writer has added, PKG-INFO included, has the mode
\* 0o644 or 0o755
C24_SdistEntriesNormalized ==
  \A i \in 1..Len(tar) : tar[i].mode \in { 420, 493 }

\* a finished wheel whose RECORD entry has the permission bits 0o600
C24_RecordEntry ==
  /\ wpc = "moved"
  /\ Len(zf) > 1
  /\ zf[Len(zf)].filename = RECORD_PATH
  /\ PermBits(zf[Len(zf)].external_attr[1]) = 384
  /\ PermBits(zf[1].external_attr[1]) = 493

(***************************************************************************)
(* The markers of optional dependencies (_vendor/pyproject_metadata).      *)
(***************************************************************************)
\* largest number of optional-dependency groups that list one requirement
MaxGroups == 2

AND == <<"a","n","d">>
OR == <<"o","r">>

\* the elements of Marker._markers: a (variable, op, value) tuple, the
\* strings "and" and "or", and the list of a parenthesized marker
Atom(n) == [ kind |-> "atom", name |-> n, items |-> << >> ]
ExtraAtom(v) == [ kind |-> "extra", name |-> v, items |-> << >> ]
Op(n) == [ kind |-> "op", name |-> n, items |-> << >> ]
Group(items) == [ kind |-> "group", name |-> << >>, items |-> items ]

\* the tokens of a marker text
LPAR == [ kind |-> "(", name |-> << >> ]
RPAR == [ kind |-> ")", name |-> << >> ]
Tok(item) == [ kind |-> item.kind, name |-> item.name ]

\* str(marker): a list of one tuple or list is written as that element, a
\* list below the top is written in parentheses
RECURSIVE format_marker(_, _)
RECURSIVE format_inner(_, _)
format_inner(marker, k) ==
  IF k > Len(marker) THEN << >>
  ELSE (IF marker[k].kind = "group" THEN format_marker(marker[k].items, FALSE)
        ELSE << Tok(marker[k]) >>)
       \o format_inner(marker, k + 1)

format_marker(marker, first) ==
  IF Len(marker) = 1 /\ marker[1].kind # "op"
  THEN IF marker[1].kind = "group" THEN format_marker(marker[1].items, TRUE)
       ELSE << Tok(marker[1]) >>
  ELSE IF first THEN format_inner(marker, 1)
       ELSE << LPAR >> \o format_inner(marker, 1) \o << RPAR >>

\* Marker(text): the list of the elements, a parenthesized marker as a list
\* of its own; gives the list and the position after it
RECURSIVE parse_marker_from(_, _, _)
parse_marker_from(tokens, i, acc) ==
  IF i > Len(tokens) THEN [ items |-> acc, next |-> i ]
  ELSE IF tokens[i].kind = ")" THEN [ items |-> acc, next |-> i + 1 ]
  ELSE IF tokens[i].kind = "("
       THEN LET sub == parse_marker_from(tokens, i + 1, << >>)
            IN  parse_marker_from(tokens, sub.next, Append(acc, Group(sub.items)))
       ELSE parse_marker_from(tokens, i + 1,
              Append(acc, [ kind |-> tokens[i].kind, name |-> tokens[i].name,
                            items |-> << >> ]))

parse_marker(tokens) == parse_marker_from(tokens, 1, << >>).items

\* Marker.evaluate: the elements between two "or" of a list must all hold,
\* and one such run must; env.holds is the set of the variable comparisons
\* that hold and env.extra the extra asked for
RECURSIVE evaluate_markers(_, _)
evaluate_markers(markers, env) ==
  LET n == Len(markers)
      ors == { i \in 1..n : markers[i] = Op(OR) }
      cuts == ors \cup { 0, n + 1 }
      value(i) == IF markers[i].kind = "group"
                  THEN evaluate_markers(markers[i].items, env)
                  ELSE IF markers[i].kind = "extra" THEN env.extra = markers[i].name
                  ELSE markers[i].name \in env.holds
  IN  \E a \in cuts :
        /\ a <= n
        /\ \A i \in (a + 1)..n :
             (\A c \in cuts : ~(a < c /\ c < i)) =>
               (markers[i].kind = "op" \/ value(i))

\* extra.replace('.', '-').replace('_', '-').lower() in as_rfc822
norm_extra(extra) == lower(ReplaceChar(ReplaceChar(extra, ".", "-"), "_", "-"))

AND_EXTRA(extra) == << Tok(Op(AND)), Tok(ExtraAtom(extra)) >>

\* _build_extra_req that never parenthesizes the marker
build_extra_req_no_parentheses(extra, marker) ==
  IF marker # << >>
  THEN parse_marker(format_marker(marker[1], TRUE) \o AND_EXTRA(extra))
  ELSE parse_marker(<< Tok(ExtraAtom(extra)) >>)

\* StandardMetadata._build_extra_req: the _markers of the marker of the
\* copy, for requirement.marker None (<< >>) or a Marker (<< markers >>)
build_extra_req(extra, marker) ==
  IF marker # << >>
  THEN IF \E i \in 1..Len(marker[1]) : marker[1][i] = Op(OR)
       THEN parse_marker(<< LPAR >> \o format_marker(marker[1], TRUE) \o << RPAR >>
                         \o AND_EXTRA(extra))
       ELSE parse_marker(format_marker(marker[1], TRUE) \o AND_EXTRA(extra))
  ELSE parse_marker(<< Tok(ExtraAtom(extra)) >>)

MA == Atom(<<"a">>)
MB == Atom(<<"b">>)
MC == Atom(<<"c">>)

\* the markers of the requirement: none, a, a and b, a or b,
\* a and b or c, a and (b or c), (a or b) and c
ReqMarkers ==
  { << >>,
    << << MA >> >>,
    << << MA, Op(AND), MB >> >>,
    << << MA, Op(OR), MB >> >>,
    << << MA, Op(AND), MB, Op(OR), MC >> >>,
    << << MA, Op(AND), Group(<< MB, Op(OR), MC >>) >> >>,
    << << Group(<< MA, Op(OR), MB >>), Op(AND), MC >> >> }

EXTRA_BE == <<"b","e">>
EXTRA_ALL == <<"a","l","l">>
EXTRA_B_E == <<"B","_","E">>

\* the names of the optional-dependency groups
ExtraNames == { EXTRA_BE, EXTRA_ALL, EXTRA_B_E }

\* the sequences of at most n different group names
RECURSIVE GroupLists(_)
GroupLists(n) ==
  IF n = 0 THEN { << >> }
  ELSE GroupLists(n - 1)
       \cup { Append(l, g) : l \in { x \in GroupLists(n - 1) : Len(x) = n - 1 },
                             g \in ExtraNames }

InitR ==
  /\ tree = CoreFiles
  /\ target = "wheel"
  /\ cfg = DefaultConfig
  /\ build_dir = [ exists |-> FALSE, files |-> {} ]
  /\ version = PROJECT_VERSION
  /\ editables = NoEditables
  /\ fpc = "start"
  /\ include_globs = EmptyMap
  /\ excludes_globs = EmptyMap
  /\ include_paths = << >>
  /\ exclude_paths = << >>
  /\ files = EmptyMap
  /\ file_items = << >>
  /\ IdleB
  /\ IdleW
  /\ IdleM
  /\ IdleS
  /\ builds = 0
  /\ IdleE
  /\ IdleT
  /\ req_marker \in ReqMarkers
  /\ req_groups \in { l \in GroupLists(MaxGroups) :
                         l # << >> /\ \A i, j \in 1..Len(l) : l[i] = l[j] => i = j }
  /\ rendered = << >>
  /\ rpc = "start"

\* one turn of the loops of as_rfc822 over optional_dependencies and the
\* requirements of a group: the Requires-Dist line of the requirement for
\* the next group; _build_extra_req works on a copy, the requirement keeps
\* its marker
RenderExtra ==
  /\ rpc = "start"
  /\ Len(rendered) < Len(req_groups)
  /\ LET extra == req_groups[Len(rendered) + 1]
         markers == build_extra_req(norm_extra(extra), req_marker)
     IN  rendered' = Append(rendered,
                       [ extra |-> norm_extra(extra), markers |-> markers,
                         text |-> format_marker(markers, TRUE) ])
  /\ UNCHANGED << req_marker, req_groups, rpc >>
  /\ UNCHANGED not_rvars

\* the end of as_rfc822
FinishRender ==
  /\ rpc = "start"
  /\ Len(rendered) = Len(req_groups)
  /\ rpc' = "done"
  /\ UNCHANGED << req_marker, req_groups, rendered >>
  /\ UNCHANGED not_rvars

NextR ==
  \/ RenderExtra
  \/ FinishRender

SpecExtra == InitR /\ [][NextR]_vars

(***************************************************************************)
(* C26: the marker of an optional dependency.                              *)
(***************************************************************************)
\* the environments a marker is evaluated in
MarkerEnvs ==
  [ holds : SUBSET { <<"a">>, <<"b">>, <<"c">> },
    extra : ExtraNames \cup { <<"b","-","e">> } ]

\* the text of the marker of the requirement, before its rendering
PriorText == format_marker(req_marker[1], TRUE)

HasTopLevelOr == \E i \in 1..Len(req_marker[1]) : req_marker[1][i].name = OR

\* the marker text stated for the group name g
StatedText(g) ==
  IF req_marker = << >> THEN << Tok(ExtraAtom(g)) >>
  ELSE IF HasTopLevelOr
       THEN << LPAR >> \o PriorText \o << RPAR, Tok(Op(AND)), Tok(ExtraAtom(g)) >>
       ELSE PriorText \o << Tok(Op(AND)), Tok(ExtraAtom(g)) >>

\* C26 as stated: the rendered marker names the group g itself
C26_Original ==
  \A i \in 1..Len(rendered) : rendered[i].text = StatedText(req_groups[i])

\* C26: the requirement rendered for group g carries 'extra == "n"', 'M and
\* extra == "n"' or '(M) and extra == "n"' (M with a top-level or), n being
\* the normalized name of g; that marker holds exactly when M holds and the
\* extra is n; each group that lists the requirement gets its own name
C26_MarkerScopedToGroup ==
  \A i \in 1..Len(rendered) :
    LET n == lower(ReplaceChar(ReplaceChar(req_groups[i], "_", "-"), ".", "-"))
    IN  /\ rendered[i].text = StatedText(n)
        /\ rendered[i].extra = n
        /\ \A env \in MarkerEnvs :
             evaluate_markers(rendered[i].markers, env)
               <=> /\ req_marker # << >> => evaluate_markers(req_marker[1], env)
                   /\ env.extra = n

\* a requirement with the marker a and b or c, rendered for be and for all
C26_Witness ==
  /\ rpc = "done"
  /\ req_marker = << << MA, Op(AND), MB, Op(OR), MC >> >>
  /\ req_groups = << EXTRA_BE, EXTRA_ALL >>
  /\ rendered[2].text
       = << LPAR, Tok(MA), Tok(Op(AND)), Tok(MB), Tok(Op(OR)), Tok(MC), RPAR,
            Tok(Op(AND)), Tok(ExtraAtom(EXTRA_ALL)) >>
  /\ rendered[1].markers
       = << Group(<< MA, Op(AND), MB, Op(OR), MC >>), Op(AND), ExtraAtom(EXTRA_BE) >>

\* a requirement of the group B_E, rendered with extra == "b-e"
C26_WitnessNormalized ==
  /\ rpc = "done"
  /\ req_groups = << EXTRA_B_E >>
  /\ req_marker = << >>
  /\ rendered[1].text = << Tok(ExtraAtom(<<"b","-","e">>)) >>

(***************************************************************************)
(* C29: the key normalization of lookup, insertion and deletion.           *)
(***************************************************************************)
\* the last operation had a key whose entry was in the FileMap
KeyWasStored(op) ==
  fm_last.op = op /\ normpath(fm_last.key) \in DOMAIN fm_last.before

\* the lookup of a stored key, in any spelling, returns its value
C29_LookupNormalized ==
  KeyWasStored("get") =>
    /\ fm_last.error = "none"
    /\ fm_last.value = << fm_last.before[normpath(fm_last.key)] >>

\* the deletion of a stored key in its normalized spelling removes that
\* entry and no other
C29_DeleteOfNormalKey ==
  (KeyWasStored("del") /\ fm_last.key = normpath(fm_last.key)) =>
    /\ fm_last.error = "none"
    /\ DOMAIN fm_data = (DOMAIN fm_last.before) \ { fm_last.key }
    /\ \A k \in DOMAIN fm_data : fm_data[k] = fm_last.before[k]

\* C29: lookup, insertion and deletion normalize the key alike: the lookup
\* of a stored key, normalized or not, returns its value, and its deletion
\* raises no error and removes exactly that entry
C29_SameNormalization ==
  /\ C29_LookupNormalized
  /\ KeyWasStored("del") =>
       /\ fm_last.error = "none"
       /\ DOMAIN fm_data = (DOMAIN fm_last.before) \ { normpath(fm_last.key) }
       /\ \A k \in DOMAIN fm_data : fm_data[k] = fm_last.before[k]

\* del fm["a//b"] on a FileMap that holds a/b: KeyError, the entry stays
C29_DeleteRaises ==
  /\ fm_last.op = "del"
  /\ fm_last.key = <<"a","/","/","b">>
  /\ A_B \in DOMAIN fm_last.before
  /\ fm_last.error = "KeyError"
  /\ A_B \in DOMAIN fm_data

(***************************************************************************)
(* C30: what the editable hook removes from the file map.                  *)
(***************************************************************************)
\* the files Builder.get_files collected before the hook, by their paths
EditableCollected ==
  { PathStr(f) : f \in tree } \ { PYPROJECT_TOML }

\* the directories of the proxied packages
ProxiedDirs ==
  { ReplaceChar(p, ".", "/") : p \in convert_package_paths(tree, cfg).packages }

IsPythonFile(relpath) ==
  \/ EndsWith(relpath, <<".","p","y">>)
  \/ EndsWith(relpath, <<".","p","y","c">>)
  \/ EndsWith(relpath, <<".","p","y","o">>)

\* relpath lies inside the directory of a proxied package
InsideProxied(relpath) ==
  \E p \in ProxiedDirs : StartsWith(relpath, p \o <<"/">>)

\* C30: after the hook no Python file and no file inside a proxied package
\* directory is left in the file map, and every other collected file is:
\* a file that is not a Python file and lies outside every proxied package
\* directory stays, also in a sibling directory whose name starts with the
\* name of a proxied package
C30_RemovesOnlyProxied ==
  (epc = "updated" /\ cfg.includes = {PKG, PKGX, DATA_OUT_JSON}) =>
    \A relpath \in EditableCollected :
      relpath \in DOMAIN files <=> ~(IsPythonFile(relpath) \/ InsideProxied(relpath))

\* no Python file and no file inside a proxied package directory is left,
\* and a file whose path does not start with the name of a proxied package
\* stays
C30_ProxiedRemoved ==
  (epc = "updated" /\ cfg.includes = {PKG, PKGX, DATA_OUT_JSON}) =>
    /\ \A relpath \in EditableCollected :
         (IsPythonFile(relpath) \/ InsideProxied(relpath)) => relpath \notin DOMAIN files
    /\ DATA_OUT_JSON \in DOMAIN files

\* pkg is proxied, pkg/y.json is removed, and pkgx/y.json, which is in no
\* package, is removed with it
C30_SiblingRemoved ==
  /\ epc = "updated"
  /\ cfg.includes = {PKG, PKGX, DATA_OUT_JSON}
  /\ ProxiedDirs = { PKG }
  /\ <<PKG, Y_JSON>> \in tree
  /\ JoinSlash(<<PKG, Y_JSON>>) \notin DOMAIN files
  /\ JoinSlash(<<PKGX, Y_JSON>>) \notin DOMAIN files
  /\ DATA_OUT_JSON \in DOMAIN files

(***************************************************************************)
(* C28: the archive-relative paths handed to build_artifact.               *)
(***************************************************************************)
\* the positions of file_items that hold the path relpath
ItemsAt(relpath) == { i \in 1..Len(file_items) : file_items[i][1] = relpath }

\* C28: sorted(get_files(context)), which Builder.build hands to
\* build_artifact, holds every archive-relative path at most once
C28_ArchivePathsUnique ==
  \A i, j \in 1..Len(file_items) :
    file_items[i][1] = file_items[j][1] => i = j

\* the paths of the FileMap that Builder.get_files returns are unique: a
\* path that is there twice is the path of a file the subclass adds, and
\* no path is there three times
C28_DuplicatesComeFromSubclass ==
  \A i, j \in 1..Len(file_items) :
    (file_items[i][1] = file_items[j][1] /\ i # j) =>
      /\ \E k \in 1..Len(extra_files(tree, target, version)) :
            extra_files(tree, target, version)[k][1] = file_items[i][1]
      /\ Cardinality(ItemsAt(file_items[i][1])) = 2

\* an sdist build hands pyproject.toml twice, from the build directory and
\* from the project root
C28_SdistManifestTwice ==
  /\ target = "sdist"
  /\ bpc = "done"
  /\ Cardinality(ItemsAt(PYPROJECT_TOML)) = 2
  /\ \E i \in ItemsAt(PYPROJECT_TOML) : file_items[i][2] = BuildFile(PYPROJECT_TOML)
  /\ \E i \in ItemsAt(PYPROJECT_TOML) : file_items[i][2] = RootFile(PYPROJECT_TOML)

\* a second wheel build that did not clean hands the WHEEL file of the
\* dist-info directory twice
C28_WheelMetadataTwice ==
  /\ target = "wheel"
  /\ builds = 2
  /\ Cardinality(ItemsAt(dist_info_name(version) \o <<"/">> \o WHEEL_NAME)) = 2

(***************************************************************************)
(* Builder.get_files with hooks that change the FileMap (base.py).         *)
(***************************************************************************)
\* largest number of hooks with a pdm_build_update_files method
MaxHooks == 2

README_MD == <<"R","E","A","D","M","E",".","m","d">>
PKG_INIT == JoinSlash(<<PKG, INIT_PY>>)

\* the project of these builds: readme = "README.md", the package pkg
GetFilesTree == { <<PYPROJECT_TOML>>, <<README_MD>>, <<PKG, INIT_PY>> }

GetFilesConfigs ==
  [ includes : { {}, { PKG, README_MD } }, excludes : { {} },
    source_includes : { {} }, editable_backend : { "path" } ]

\* what a pdm_build_update_files hook does: files[path] = a file of its
\* own, files.pop(path, None), or writing build_dir / path
HookOps == [ op : { "set", "remove", "write" }, path : { PKG_INIT, README_MD } ]

\* a file of a hook as a FileMap value
HookFile(path) == << "hook", path >>

\* the FileMap and the build directory after one hook
apply_hook(fm, bd, h) ==
  IF h.op = "set"
  THEN [ files |-> filemap_setitem(fm, h.path, HookFile(h.path)).data,
         build_dir |-> bd ]
  ELSE IF h.op = "remove"
  THEN [ files |-> IF filemap_getitem(fm, h.path).error = "none"
                   THEN filemap_delitem(fm, h.path).data ELSE fm,
         build_dir |-> bd ]
  ELSE [ files |-> fm,
         build_dir |-> [ ensure_build_dir(bd) EXCEPT !.files = @ \cup { h.path } ] ]

\* the end of Builder.get_files with the files of the hooks put over those of
\* the build directory
builder_get_files_hooks_last(fm, bd, excludes) ==
  FileMapUpdate(collect_build_files(bd, excludes), fm)

\* the end of Builder.get_files:
\* files.update(self._collect_build_files(context))
builder_get_files(fm, bd, excludes) ==
  FileMapUpdate(fm, collect_build_files(bd, excludes))

\* what SdistBuilder.get_files and WheelBuilder.get_files yield after the
\* items of Builder.get_files: for an sdist the readme and pyproject.toml
\* that exist (no local hook and no license file in this project)
additional_files(t, tgt, ver) ==
  IF tgt = "sdist"
  THEN (IF lexists(t, <<README_MD>>)
        THEN << << README_MD, RootFile(README_MD) >> >> ELSE << >>)
       \o extra_files(t, tgt, ver)
  ELSE extra_files(t, tgt, ver)

RECURSIVE HookLists(_)
HookLists(n) ==
  IF n = 0 THEN { << >> }
  ELSE HookLists(n - 1)
       \cup { Append(l, h) : l \in { x \in HookLists(n - 1) : Len(x) = n - 1 },
                             h \in HookOps }

InitG ==
  /\ tree = GetFilesTree
  /\ target \in { "sdist", "wheel" }
  /\ cfg \in GetFilesConfigs
  /\ build_dir = InitializedBuildDir(target)
  /\ version = PROJECT_VERSION
  /\ editables = NoEditables
  /\ fpc = "start"
  /\ include_globs = EmptyMap
  /\ excludes_globs = EmptyMap
  /\ include_paths = << >>
  /\ exclude_paths = << >>
  /\ files = EmptyMap
  /\ file_items = << >>
  /\ no_clean_build = << >>
  /\ env_no_clean = << >>
  /\ run_setuptools = FALSE
  /\ entry_points = << >>
  /\ local_hook = << >>
  /\ hooks \in HookLists(MaxHooks)
  /\ todo = << >>
  /\ bpc = "pre"
  /\ hidx = 1
  /\ log = << >>
  /\ error = << >>
  /\ artifact = << >>
  /\ IdleW
  /\ IdleX

\* the variables Builder.get_files leaves alone in these builds
gidle == << tree, target, cfg, version, editables, fidle, no_clean_build,
            env_no_clean, run_setuptools, entry_points, local_hook, hooks, todo,
            error, artifact, wvars, xvars >>

\* files = self._collect_files(context)
GetFilesCollect ==
  /\ bpc = "pre"
  /\ LET ie == get_include_and_exclude(tree, target, cfg)
     IN  \E ig \in GlobDicts(tree, ie.includes), eg \in GlobDicts(tree, ie.excludes) :
           LET m == merge_globs(ig, eg)
               fm == collect_files(tree, m.includes, m.excludes)
               collected == IF target = "sdist" THEN fm ELSE wheel_collect_files(fm)
           IN  /\ files' = collected
               /\ log' = << [ step |-> "collected", files |-> collected,
                              build |-> build_dir.files ] >>
  /\ bpc' = "hooks"
  /\ UNCHANGED << gidle, build_dir, file_items, hidx >>

\* one turn of call_hook("pdm_build_update_files", context, files): the
\* hook gets the FileMap as the hooks before it have left it
GetFilesHook ==
  /\ bpc = "hooks"
  /\ hidx <= Len(hooks)
  /\ LET r == apply_hook(files, build_dir, hooks[hidx])
     IN  files' = r.files /\ build_dir' = r.build_dir
  /\ hidx' = hidx + 1
  /\ UNCHANGED << gidle, file_items, bpc, log >>

\* files.update(self._collect_build_files(context)) after the last hook
GetFilesBuildDir ==
  /\ bpc = "hooks"
  /\ hidx > Len(hooks)
  /\ files' = builder_get_files(files, build_dir,
                 get_include_and_exclude(tree, target, cfg).excludes)
  /\ log' = Append(log, [ step |-> "hooked", files |-> files,
                          build |-> build_dir.files ])
  /\ bpc' = "merged"
  /\ UNCHANGED << gidle, build_dir, file_items, hidx >>

\* the rest of the get_files generator of the subclass, and sorted() in
\* Builder.build
GetFilesSubclass ==
  /\ bpc = "merged"
  /\ file_items' = SortItems(ItemsOf(files, Sorted(DOMAIN files))
                             \o additional_files(tree, target, version))
  /\ build_dir' = write_dist_info(build_dir, target, version)
  /\ bpc' = "done"
  /\ UNCHANGED << gidle, files, hidx, log >>

NextG ==
  \/ GetFilesCollect
  \/ GetFilesHook
  \/ GetFilesBuildDir
  \/ GetFilesSubclass

SpecGetFiles == InitG /\ [][NextG]_vars

(***************************************************************************)
(* C27: the precedence of collected files, hooks and build directory.      *)
(***************************************************************************)
\* the FileMap after the hooks k.. have worked on fm, one after the other
RECURSIVE HooksApplied(_, _)
HooksApplied(fm, k) ==
  IF k > Len(hooks) THEN fm
  ELSE LET h == hooks[k]
       IN  HooksApplied(
             IF h.op = "set"
             THEN [ p \in (DOMAIN fm) \cup { h.path } |->
                      IF p = h.path THEN HookFile(p) ELSE fm[p] ]
             ELSE IF h.op = "remove"
             THEN [ p \in (DOMAIN fm) \ { h.path } |-> fm[p] ]
             ELSE fm,
             k + 1)

\* the files of the build directory when the hooks had finished, without
\* the .gitignore of the directory
Supplied == log[2].build

RemovedByHooks == (DOMAIN log[1].files) \ (DOMAIN log[2].files)

ReplacedByHooks ==
  { p \in DOMAIN log[2].files : log[2].files[p] = HookFile(p) }

C27_ReadmeBack ==
  /\ bpc = "done"
  /\ target = "sdist"
  /\ hooks = << [ op |-> "remove", path |-> README_MD ] >>
  /\ README_MD \in RemovedByHooks
  /\ README_MD \notin Supplied
  /\ \E i \in ItemsAt(README_MD) : file_items[i][2] = RootFile(README_MD)

====
